---------------------------- MODULE Spec2Model ----------------------------
(***************************************************************************)
(* Model of the distribution-analysis engine of script.js: StatCore        *)
(* (parseRange, cleanForEval, integrate, summate, validateDistribution,    *)
(* identifyDistribution, trySymbolicIntegration, factorial, nCr), the      *)
(* Universal Analyzer handler Modules.custom_uni.calculate with the        *)
(* listener of its CDF query, the Binomial and Normal calculators          *)
(* Modules.bin and Modules.normal with the chart they share, and           *)
(* UI.loadModule.                                                          *)
(*                                                                         *)
(* Strings are sequences of one-character strings.  JavaScript numbers     *)
(* are records [k, n, d]: k = "fin" is the rational n/d in lowest terms    *)
(* with d > 0 (exact arithmetic in place of IEEE doubles), k = "nan",      *)
(* "pinf", "ninf" are NaN, +Infinity, -Infinity, and k = "undef" is a      *)
(* field the object does not have.                                         *)
(***************************************************************************)
EXTENDS Integers, Sequences, FiniteSets, TLC

VARIABLES
    rangeInput,   \* value of the #custom-range input field
    funcInput,    \* value of the #custom-func input field
    parsed,       \* descriptor returned by the last StatCore.parseRange call
    analysis,     \* what the last run of calculate computed and rendered
    nerdamer,     \* the symbolic library: "absent", "throws" or "works"
    distInfo,     \* result of the last StatCore.identifyDistribution call
    quad,         \* record of the last StatCore.integrate call
    bin,          \* the Binomial calculator: its fields, results and chart
    cleaned,      \* what the last call of StatCore.cleanForEval returned
    normal,       \* the Normal calculator: its fields, results and sampling loop
    myChart,      \* window.myChart, and the charts created and not destroyed
    query         \* the CDF query of the analyzer: its listeners and what they answered

vars == <<rangeInput, funcInput, parsed, analysis, nerdamer, distInfo, quad, bin, cleaned, normal, myChart, query>>

----------------------------------------------------------------------------
(* JavaScript numbers *)

NaN == [k |-> "nan", n |-> 0, d |-> 1]
PInf == [k |-> "pinf", n |-> 0, d |-> 1]
NInf == [k |-> "ninf", n |-> 0, d |-> 1]
Undefined == [k |-> "undef", n |-> 0, d |-> 1]

Abs(i) == IF i < 0 THEN -i ELSE i

RECURSIVE GCD(_, _)
GCD(a, b) == IF b = 0 THEN a ELSE GCD(b, a % b)

Rat(n, d) ==
    LET s == IF d < 0 THEN -1 ELSE 1
        g == GCD(Abs(n), Abs(d))
    IN [k |-> "fin", n |-> (s * n) \div g, d |-> (s * d) \div g]

Num(i) == [k |-> "fin", n |-> i, d |-> 1]

isNaN(a) == a.k \in {"nan", "undef"}
isFinite(a) == a.k = "fin"
Sign(a) ==
    CASE a.k = "pinf" -> 1
      [] a.k = "ninf" -> -1
      [] a.k = "fin" -> (IF a.n > 0 THEN 1 ELSE IF a.n < 0 THEN -1 ELSE 0)
      [] OTHER -> 0
InfOf(s) == IF s > 0 THEN PInf ELSE NInf

Neg(a) ==
    CASE a.k = "fin" -> Rat(-a.n, a.d)
      [] a.k = "pinf" -> NInf
      [] a.k = "ninf" -> PInf
      [] OTHER -> NaN

Add(a, b) ==
    IF isNaN(a) \/ isNaN(b) THEN NaN
    ELSE IF a.k = "fin" /\ b.k = "fin" THEN Rat(a.n * b.d + b.n * a.d, a.d * b.d)
    ELSE IF a.k = "fin" THEN b
    ELSE IF b.k = "fin" THEN a
    ELSE IF a.k = b.k THEN a
    ELSE NaN

Sub(a, b) == Add(a, Neg(b))

Mul(a, b) ==
    IF isNaN(a) \/ isNaN(b) THEN NaN
    ELSE IF a.k = "fin" /\ b.k = "fin" THEN Rat(a.n * b.n, a.d * b.d)
    ELSE IF Sign(a) * Sign(b) = 0 THEN NaN
    ELSE InfOf(Sign(a) * Sign(b))

Div(a, b) ==
    IF isNaN(a) \/ isNaN(b) THEN NaN
    ELSE IF a.k = "fin" /\ b.k = "fin"
         THEN IF b.n # 0 THEN Rat(a.n * b.d, a.d * b.n)
              ELSE IF a.n = 0 THEN NaN ELSE InfOf(Sign(a))
    ELSE IF a.k = "fin" THEN Num(0)
    ELSE IF b.k = "fin" THEN InfOf(Sign(a) * (IF Sign(b) < 0 THEN -1 ELSE 1))
    ELSE NaN

\* a < b as JavaScript evaluates it: false when either side is NaN
Less(a, b) ==
    IF isNaN(a) \/ isNaN(b) THEN FALSE
    ELSE IF a.k = "fin" /\ b.k = "fin" THEN a.n * b.d < b.n * a.d
    ELSE IF a.k = "ninf" THEN b.k # "ninf"
    ELSE IF b.k = "pinf" THEN a.k # "pinf"
    ELSE FALSE

MathAbs(a) == IF Sign(a) < 0 THEN Neg(a) ELSE a

\* a <= b as JavaScript evaluates it
LessEq(a, b) == Less(a, b) \/ (a = b /\ ~isNaN(a))

RECURSIVE IntPow(_, _)
IntPow(b, e) == IF e = 0 THEN 1 ELSE b * IntPow(b, e - 1)

----------------------------------------------------------------------------
(* Characters and strings *)

DigitChars == <<"0", "1", "2", "3", "4", "5", "6", "7", "8", "9">>
UpperChars == <<"A", "B", "C", "D", "E", "F", "G", "H", "I", "J", "K", "L", "M",
                "N", "O", "P", "Q", "R", "S", "T", "U", "V", "W", "X", "Y", "Z">>
LowerChars == <<"a", "b", "c", "d", "e", "f", "g", "h", "i", "j", "k", "l", "m",
                "n", "o", "p", "q", "r", "s", "t", "u", "v", "w", "x", "y", "z">>

IsDigit(c) == \E i \in 1..10 : DigitChars[i] = c
DigitVal(c) == (CHOOSE i \in 1..10 : DigitChars[i] = c) - 1
IsLower(c) == \E i \in 1..26 : LowerChars[i] = c
IsSpace(c) == c \in {" ", "\t", "\n"}

ToLowerChar(c) ==
    IF \E i \in 1..26 : UpperChars[i] = c
    THEN LowerChars[CHOOSE i \in 1..26 : UpperChars[i] = c]
    ELSE c

toLowerCase(s) == [i \in 1..Len(s) |-> ToLowerChar(s[i])]

\* s.replace(/\s/g, '')
NotSpace(c) == ~IsSpace(c)
stripSpaces(s) == SelectSeq(s, NotSpace)

StartsWithAt(s, pat, i) ==
    /\ i >= 1
    /\ i + Len(pat) - 1 <= Len(s)
    /\ \A j \in 1..Len(pat) : s[i + j - 1] = pat[j]

includes(s, pat) == \E i \in 1..Len(s) : StartsWithAt(s, pat, i)

IndexOf(s, pat) ==
    IF includes(s, pat)
    THEN CHOOSE i \in 1..Len(s) :
            /\ StartsWithAt(s, pat, i)
            /\ \A j \in 1..(i - 1) : ~StartsWithAt(s, pat, j)
    ELSE 0

RECURSIVE split(_, _)
\* the parts of s when the first separator is at index i (0: there is none)
splitAt(s, pat, i) ==
    IF i = 0 THEN <<s>>
    ELSE <<SubSeq(s, 1, i - 1)>> \o split(SubSeq(s, i + Len(pat), Len(s)), pat)

\* s.split(pat) for a non-empty separator
split(s, pat) == splitAt(s, pat, IndexOf(s, pat))

RECURSIVE join(_, _)
join(parts, sep) ==
    IF Len(parts) = 1 THEN parts[1]
    ELSE parts[1] \o sep \o join(Tail(parts), sep)

\* s.replace(/pat/g, rep) for a literal pattern
replaceAll(s, pat, rep) == join(split(s, pat), rep)

----------------------------------------------------------------------------
(* parseFloat: the longest prefix that is a decimal literal, NaN if none *)

RECURSIVE DigitRun(_, _)
DigitRun(s, i) ==
    IF i <= Len(s) /\ IsDigit(s[i]) THEN 1 + DigitRun(s, i + 1) ELSE 0

RECURSIVE DigitsValue(_, _, _)
DigitsValue(s, i, cnt) ==
    IF cnt = 0 THEN 0
    ELSE DigitsValue(s, i, cnt - 1) * 10 + DigitVal(s[i + cnt - 1])

signLen(s) == IF Len(s) >= 1 /\ s[1] \in {"-", "+"} THEN 1 ELSE 0
signOf(s) == IF Len(s) >= 1 /\ s[1] = "-" THEN -1 ELSE 1

\* the length of a "." and the digits after it at index p, 0 without a "."
fracLen(s, p) == IF p <= Len(s) /\ s[p] = "." THEN 1 + DigitRun(s, p + 1) ELSE 0

\* the index of the exponent's first digit after an "e" at index p, 0 without
expStart(s, p) ==
    IF p <= Len(s) /\ s[p] \in {"e", "E"}
    THEN IF p + 1 <= Len(s) /\ s[p + 1] \in {"-", "+"} THEN p + 2 ELSE p + 1
    ELSE 0

\* a digits of integer part at i0 followed by b digits of fraction
mantissa(s, i0, a, b) == DigitsValue(s, i0, a) * IntPow(10, b) + DigitsValue(s, i0 + a + 1, b)

\* c digits of exponent at e0, signed by the character before them
exponent(s, e0, c) ==
    IF c = 0 THEN 0 ELSE (IF s[e0 - 1] = "-" THEN -1 ELSE 1) * DigitsValue(s, e0, c)

RECURSIVE digitCount(_)
\* the number of decimal digits of the natural number m
digitCount(m) == IF m < 10 THEN 1 ELSE 1 + digitCount(m \div 10)

\* m / 10^b * 10^ex is below 10^magnitude (and at least a tenth of it)
magnitude(m, b, ex) == digitCount(Abs(m)) + ex - b

\* m / 10^b * 10^ex as a double: a literal of 10^309 or more is beyond the
\* largest double and reads as Infinity, one below 10^-324 reads as 0 (the
\* literals between 1.8 * 10^308 and 10^309, which also read as Infinity,
\* are outside the texts of this model)
scaled(m, b, ex) ==
    IF m # 0 /\ magnitude(m, b, ex) > 309 THEN InfOf(m)
    ELSE IF m = 0 \/ magnitude(m, b, ex) < -323 THEN Num(0)
    ELSE IF ex >= 0 THEN Rat(m * IntPow(10, ex), IntPow(10, b))
    ELSE Rat(m, IntPow(10, b) * IntPow(10, -ex))

\* the literal: mantissa up to mEnd, then c exponent digits at e0
floatValue(s, i0, a, b, mEnd, e0, c) ==
    [end |-> IF c >= 1 THEN e0 + c ELSE mEnd,
     val |-> scaled(signOf(s) * mantissa(s, i0, a, b), b, exponent(s, e0, c))]

scanExpDigits(s, i0, a, b, mEnd, e0) ==
    floatValue(s, i0, a, b, mEnd, e0, IF e0 = 0 THEN 0 ELSE DigitRun(s, e0))

scanExp(s, i0, a, b, mEnd) == scanExpDigits(s, i0, a, b, mEnd, expStart(s, mEnd))

\* fl is the length of the fraction with its "."; no digit at all is no literal
scanFrac(s, i0, a, fl) ==
    IF a = 0 /\ fl <= 1 THEN [end |-> 0, val |-> NaN]
    ELSE scanExp(s, i0, a, IF fl > 0 THEN fl - 1 ELSE 0, i0 + a + fl)

scanInt(s, i0, a) == scanFrac(s, i0, a, fracLen(s, i0 + a))

scanFrom(s, i0) == scanInt(s, i0, DigitRun(s, i0))

\* the scan of parseFloat: end is the index after the literal (0 if there is none)
scanFloat(s) == scanFrom(s, signLen(s) + 1)

parseFloat(s) == scanFloat(s).val

----------------------------------------------------------------------------
(* StatCore.parseRange *)

Continuous(lo, hi) == [type |-> "continuous", min |-> lo, max |-> hi, values |-> <<>>]
Discrete(vals) == [type |-> "discrete", min |-> Undefined, max |-> Undefined, values |-> vals]
NoRange == [type |-> "none", min |-> Undefined, max |-> Undefined, values |-> <<>>]

\* mutant: the inequalities <= and >= are not collapsed
normalizeRangeKeepEq(rangeStr) == stripSpaces(toLowerCase(rangeStr))

\* step 1 of parseRange: lower-case, strip whitespace, collapse <= and >=
normalizeRange(rangeStr) ==
    replaceAll(replaceAll(stripSpaces(toLowerCase(rangeStr)), <<"<", "=">>, <<"<">>),
               <<">", "=">>, <<">">>)

\* a bound that did not parse defaults to -inf (lower) or +inf (upper)
lowerOr(val) == IF isNaN(val) THEN NInf ELSE val
upperOr(val) == IF isNaN(val) THEN PInf ELSE val

\* mutant: the left token is treated like the right one ('inf' alone decides)
leftBoundInfOnly(tok) ==
    IF includes(tok, <<"i", "n", "f">>) THEN NInf ELSE lowerOr(parseFloat(tok))

\* the left token of Case A
leftBound(tok) ==
    IF includes(tok, <<"i", "n", "f">>) /\ includes(tok, <<"-">>) THEN NInf
    ELSE lowerOr(parseFloat(tok))

\* the right token of Case A
rightBound(tok) ==
    IF includes(tok, <<"i", "n", "f">>) THEN PInf ELSE upperOr(parseFloat(tok))

betweenOf(parts) == Continuous(leftBound(parts[1]), rightBound(parts[2]))

\* Case A: "0 < x < 5"
parseBetween(s) == betweenOf(split(s, <<"<", "x", "<">>))

\* mutant: the 'x<' rule is tried before the 'x>' rule
parseSingleBoundLtFirst(s) ==
    IF includes(s, <<"x", "<">>)
    THEN Continuous(NInf, upperOr(parseFloat(split(s, <<"x", "<">>)[2])))
    ELSE IF includes(s, <<"x", ">">>)
    THEN Continuous(lowerOr(parseFloat(split(s, <<"x", ">">>)[2])), PInf)
    ELSE IF includes(s, <<"i", "n", "f">>) /\ includes(s, <<"0">>)
    THEN Continuous(Num(0), PInf)
    ELSE Continuous(NInf, PInf)

\* Cases B, C, D: a single bound, or the "0 to inf" text
parseSingleBound(s) ==
    IF includes(s, <<"x", ">">>)
    THEN Continuous(lowerOr(parseFloat(split(s, <<"x", ">">>)[2])), PInf)
    ELSE IF includes(s, <<"x", "<">>)
    THEN Continuous(NInf, upperOr(parseFloat(split(s, <<"x", "<">>)[2])))
    ELSE IF includes(s, <<"i", "n", "f">>) /\ includes(s, <<"0">>)
    THEN Continuous(Num(0), PInf)
    ELSE Continuous(NInf, PInf)

\* mutant: the minus sign is stripped with the other characters
IsDiscreteCharNoMinus(c) == IsDigit(c) \/ c \in {".", ","}

IsDiscreteChar(c) == IsDigit(c) \/ c \in {".", ",", "-"}
NotNaN(v) == ~isNaN(v)

\* cleanDiscrete.split(',').map(n => parseFloat(n))
parsedTokens(tokens) == [i \in 1..Len(tokens) |-> parseFloat(tokens[i])]

\* the values of the cleaned text, unparsable tokens dropped
valuesOf(cleanDiscrete) ==
    IF Len(cleanDiscrete) > 0
    THEN SelectSeq(parsedTokens(split(cleanDiscrete, <<",">>)), NotNaN)
    ELSE <<>>

\* step 3 of parseRange: the values of a comma list
discreteValues(s) == valuesOf(SelectSeq(s, IsDiscreteChar))

\* mutant: the infinity token does not select the continuous path
isContinuousTextNoInf(s) == includes(s, <<"<">>) \/ includes(s, <<">">>)

isContinuousText(s) ==
    includes(s, <<"<">>) \/ includes(s, <<">">>) \/ includes(s, <<"i", "n", "f">>)

\* mutant: the discrete path returns its values without checking for any
discreteAlways(validValues) == Discrete(validValues)

\* steps 3 and 4: Discrete if a value remains, else the unbounded fallback
discreteOrFallback(validValues) ==
    IF Len(validValues) > 0 THEN Discrete(validValues) ELSE Continuous(NInf, PInf)

\* parseRange after step 1
parseNormalized(s) ==
    IF isContinuousText(s)
    THEN IF includes(s, <<"<", "x", "<">>) THEN parseBetween(s) ELSE parseSingleBound(s)
    ELSE discreteOrFallback(discreteValues(s))

parseRange(rangeStr) == parseNormalized(normalizeRange(rangeStr))

----------------------------------------------------------------------------
(* StatCore.cleanForEval *)

IsExpChar(c) == c \in {"-", ".", "*"} \/ IsDigit(c) \/ IsLower(c)

RECURSIVE ExpCharRun(_, _)
ExpCharRun(s, i) ==
    IF i <= Len(s) /\ IsExpChar(s[i]) THEN 1 + ExpCharRun(s, i + 1) ELSE 0

RECURSIVE rewriteExp(_, _)

\* mutant: the match becomes "e^(group)", which the expression matches again
rewriteGroupCaret(s, i, stop) ==
    <<"e", "^", "(">> \o SubSeq(s, i + 2, stop - 1) \o <<")">> \o rewriteExp(s, stop)

\* the match "e^" at i with its group ending before stop becomes "exp(group)"
rewriteGroup(s, i, stop) ==
    <<"e", "x", "p", "(">> \o SubSeq(s, i + 2, stop - 1) \o <<")">> \o rewriteExp(s, stop)

\* "e^" at i, then run characters of the class ending before runEnd: a match
\* needs one at least, and takes a closing parenthesis if one follows
rewriteRun(s, i, run, runEnd) ==
    IF run >= 1
    THEN rewriteGroup(s, i, IF runEnd <= Len(s) /\ s[runEnd] = ")" THEN runEnd + 1 ELSE runEnd)
    ELSE <<s[i]>> \o rewriteExp(s, i + 1)

\* "e^" at i, the class characters start at runStart (after an optional "(")
rewriteAt(s, i, runStart) ==
    rewriteRun(s, i, ExpCharRun(s, runStart), runStart + ExpCharRun(s, runStart))

\* s.replace(/e\^(\(?[\-0-9a-z\.\*]+\)?)/g, 'exp($1)'), scanning from index i
rewriteExp(s, i) ==
    IF i > Len(s) THEN <<>>
    ELSE IF StartsWithAt(s, <<"e", "^">>, i)
    THEN rewriteAt(s, i, IF i + 2 <= Len(s) /\ s[i + 2] = "(" THEN i + 3 ELSE i + 2)
    ELSE <<s[i]>> \o rewriteExp(s, i + 1)

\* s.replace(/([0-9])([a-z\(])/g, '$1*$2'), scanning from index i
RECURSIVE insertTimes(_, _)
insertTimes(s, i) ==
    IF i > Len(s) THEN <<>>
    ELSE IF IsDigit(s[i]) /\ i < Len(s) /\ (IsLower(s[i + 1]) \/ s[i + 1] = "(")
    THEN <<s[i], "*">> \o insertTimes(s, i + 1)
    ELSE <<s[i]>> \o insertTimes(s, i + 1)

cleanForEval(str) ==
    insertTimes(rewriteExp(stripSpaces(toLowerCase(str)), 1), 1)

----------------------------------------------------------------------------
(* math.compile(text).evaluate({x: v}) of math.js, for arithmetic over x:   *)
(* numbers, x, parentheses, + - * /, ^ with an integer exponent and the     *)
(* call exp(...), with math.js's precedence (unary minus binds weaker than  *)
(* ^).  A text that does not parse, or that names another symbol, throws    *)
(* (the constants and the other functions of math.js are outside the        *)
(* alphabet of the model's expressions).                                    *)

Thrown == [ok |-> FALSE, val |-> NaN, pos |-> 0]
Value(v, p) == [ok |-> TRUE, val |-> v, pos |-> p]

RECURSIVE PowInt(_, _)
PowInt(a, e) == IF e = 0 THEN Num(1) ELSE Mul(a, PowInt(a, e - 1))

Pow(a, e) ==
    IF isFinite(e) /\ e.d = 1
    THEN IF e.n >= 0 THEN PowInt(a, e.n) ELSE Div(Num(1), PowInt(a, -e.n))
    ELSE NaN

\* Math.exp where its value is a rational or an infinity (e^q is irrational
\* for every other rational q: such arguments are outside the model)
Exp(a) ==
    CASE a = Num(0) -> Num(1)
      [] a = PInf -> PInf
      [] a = NInf -> Num(0)
      [] isNaN(a) -> NaN

RECURSIVE IdentRun(_, _)
IdentRun(s, i) ==
    IF i <= Len(s) /\ (IsLower(s[i]) \/ IsDigit(s[i])) THEN 1 + IdentRun(s, i + 1) ELSE 0

RECURSIVE evalSum(_, _, _), evalSumRest(_, _, _, _), evalProduct(_, _, _)
RECURSIVE evalProductRest(_, _, _, _), evalUnary(_, _, _), evalPower(_, _, _)
RECURSIVE evalAtom(_, _, _)

\* "( sum )": r is the result for the text after the opening parenthesis
closeParen(s, r) ==
    IF r.ok /\ r.pos <= Len(s) /\ s[r.pos] = ")" THEN Value(r.val, r.pos + 1) ELSE Thrown

\* a number literal at index i, lit its scan
numberAt(i, lit) == IF lit.end = 0 THEN Thrown ELSE Value(lit.val, i + lit.end - 1)

\* exp applied to the result r of its parenthesized argument
applied(r) == IF r.ok THEN Value(Exp(r.val), r.pos) ELSE Thrown

\* the identifier of len characters at index i: the variable x, the call
\* exp(...), or an undefined symbol
evalSymbol(s, i, x, len) ==
    IF len = 1 /\ s[i] = "x" THEN Value(x, i + 1)
    ELSE IF len = 3 /\ StartsWithAt(s, <<"e", "x", "p", "(">>, i)
    THEN applied(closeParen(s, evalSum(s, i + 4, x)))
    ELSE Thrown

evalAtom(s, i, x) ==
    IF i > Len(s) THEN Thrown
    ELSE IF s[i] = "(" THEN closeParen(s, evalSum(s, i + 1, x))
    ELSE IF IsLower(s[i]) THEN evalSymbol(s, i, x, IdentRun(s, i))
    ELSE IF IsDigit(s[i]) \/ s[i] = "." THEN numberAt(i, scanFloat(SubSeq(s, i, Len(s))))
    ELSE Thrown

\* base ^ exponent, e the result for the exponent
raised(b, e) == IF e.ok THEN Value(Pow(b.val, e.val), e.pos) ELSE Thrown

\* an optional "^ exponent" after the base b
powerOf(s, b, x) ==
    IF b.ok /\ b.pos <= Len(s) /\ s[b.pos] = "^"
    THEN raised(b, evalUnary(s, b.pos + 1, x))
    ELSE b

evalPower(s, i, x) == powerOf(s, evalAtom(s, i, x), x)

\* a unary sign c applied to the result r
signed(c, r) ==
    IF ~r.ok THEN Thrown ELSE Value(IF c = "-" THEN Neg(r.val) ELSE r.val, r.pos)

evalUnary(s, i, x) ==
    IF i <= Len(s) /\ s[i] \in {"-", "+"} THEN signed(s[i], evalUnary(s, i + 1, x))
    ELSE evalPower(s, i, x)

\* acc op r, followed by the rest of the product
productStep(s, acc, op, r, x) ==
    IF ~r.ok THEN Thrown
    ELSE evalProductRest(s, IF op = "*" THEN Mul(acc, r.val) ELSE Div(acc, r.val), r.pos, x)

evalProductRest(s, acc, i, x) ==
    IF i <= Len(s) /\ s[i] \in {"*", "/"}
    THEN productStep(s, acc, s[i], evalUnary(s, i + 1, x), x)
    ELSE Value(acc, i)

productFrom(s, r, x) == IF r.ok THEN evalProductRest(s, r.val, r.pos, x) ELSE Thrown

evalProduct(s, i, x) == productFrom(s, evalUnary(s, i, x), x)

\* acc op r, followed by the rest of the sum
sumStep(s, acc, op, r, x) ==
    IF ~r.ok THEN Thrown
    ELSE evalSumRest(s, IF op = "+" THEN Add(acc, r.val) ELSE Sub(acc, r.val), r.pos, x)

evalSumRest(s, acc, i, x) ==
    IF i <= Len(s) /\ s[i] \in {"+", "-"}
    THEN sumStep(s, acc, s[i], evalProduct(s, i + 1, x), x)
    ELSE Value(acc, i)

sumFrom(s, r, x) == IF r.ok THEN evalSumRest(s, r.val, r.pos, x) ELSE Thrown

evalSum(s, i, x) == sumFrom(s, evalProduct(s, i, x), x)

\* the whole text must have been read
wholeText(text, r) == IF r.ok /\ r.pos = Len(text) + 1 THEN r ELSE Thrown

\* f.evaluate({x: v}) for f = math.compile(text): ok is FALSE when it throws
\* (an empty text, which evaluates to undefined, counts as thrown: integrate
\* and summate return NaN for it either way)
evaluate(text, v) == wholeText(text, evalSum(text, 1, v))

----------------------------------------------------------------------------
(* StatCore.integrate, summate, validateDistribution *)

\* half the number of Simpson steps: the code's default of 10000 steps is
\* scaled down to 2 * HalfSteps, an even count as in the code
HalfSteps == 2
DefaultSteps == 2 * HalfSteps

Surrogate == 100

\* if (!isFinite(val)) val = 0
finiteOrZero(val) == IF ~isFinite(val) THEN Num(0) ELSE val

\* const x = effLow + i * h
samplePoint(effLow, h, i) == Add(effLow, Mul(Num(i), h))

RECURSIVE simpsonInnerSwapped(_, _, _, _, _)
\* mutant: the Simpson weights 2 and 4 are exchanged
simpsonInnerSwapped(f, effLow, h, i, steps) ==
    IF i >= steps THEN Num(0)
    ELSE Add(Mul(Num(IF i % 2 = 0 THEN 4 ELSE 2),
                 finiteOrZero(evaluate(f, samplePoint(effLow, h, i)).val)),
             simpsonInnerSwapped(f, effLow, h, i + 1, steps))

RECURSIVE simpsonInner(_, _, _, _, _)
\* the loop of integrate: the weighted sum over sample points i .. steps - 1
simpsonInner(f, effLow, h, i, steps) ==
    IF i >= steps THEN Num(0)
    ELSE Add(Mul(Num(IF i % 2 = 0 THEN 2 ELSE 4),
                 finiteOrZero(evaluate(f, samplePoint(effLow, h, i)).val)),
             simpsonInner(f, effLow, h, i + 1, steps))

\* mutant: the sum is scaled by h / 2
simpsonResultHalf(h, atLow, atHigh, inner) ==
    IF ~atLow.ok THEN NaN
    ELSE Mul(Div(h, Num(2)), Add(Add(atLow.val, atHigh.val), inner))

\* (h / 3) * sum, or NaN when the expression throws
simpsonResult(h, atLow, atHigh, inner) ==
    IF ~atLow.ok THEN NaN
    ELSE Mul(Div(h, Num(3)), Add(Add(atLow.val, atHigh.val), inner))

\* integrate once the expression is cleaned and the bounds are effective
simpson(f, effLow, effHigh, h, steps) ==
    simpsonResult(h, evaluate(f, effLow), evaluate(f, effHigh),
                  simpsonInner(f, effLow, h, 1, steps))

effectiveLow(lower) == IF lower = NInf THEN Num(-Surrogate) ELSE lower
effectiveHigh(upper) == IF upper = PInf THEN Num(Surrogate) ELSE upper

integrate(funcStr, lower, upper, steps) ==
    simpson(cleanForEval(funcStr), effectiveLow(lower), effectiveHigh(upper),
            Div(Sub(effectiveHigh(upper), effectiveLow(lower)), Num(steps)), steps)

RECURSIVE sumValues(_, _, _)
sumValues(f, values, i) ==
    IF i > Len(values) THEN Num(0)
    ELSE Add(evaluate(f, values[i]).val, sumValues(f, values, i + 1))

\* mutant: the catch block returns 0
summedZero(f, values) ==
    IF Len(values) > 0 /\ ~evaluate(f, values[1]).ok THEN Num(0)
    ELSE sumValues(f, values, 1)

\* the sum, or NaN when the expression throws
summed(f, values) ==
    IF Len(values) > 0 /\ ~evaluate(f, values[1]).ok THEN NaN
    ELSE sumValues(f, values, 1)

summate(funcStr, values) == summed(cleanForEval(funcStr), values)

Tolerance == Rat(5, 100)

\* mutant: the tolerance test is <= instead of <
validInclusive(total) ==
    [isValid |-> Less(MathAbs(Sub(total, Num(1))), Tolerance)
                    \/ MathAbs(Sub(total, Num(1))) = Tolerance,
     total |-> total]

\* isValid = Math.abs(total - 1) < 0.05; return { isValid, total }
validOf(total) ==
    [isValid |-> Less(MathAbs(Sub(total, Num(1))), Tolerance), total |-> total]

validateDistribution(funcStr, rangeObj) ==
    validOf(IF rangeObj.type = "discrete" THEN summate(funcStr, rangeObj.values)
            ELSE integrate(funcStr, rangeObj.min, rangeObj.max, DefaultSteps))

----------------------------------------------------------------------------
(* StatCore.identifyDistribution *)

LambdaSymbol == [k |-> "lambda", n |-> 0, d |-> 1]

\* a match: the family tag and the parameter the rule extracts (n of the
\* Binomial notation, lambda of the Exponential one)
Match(type, param) == [type |-> type, param |-> param]
NoMatch == Match("none", Undefined)

\* funcStr.toLowerCase().replace(/\s/g, '')
normalizeFunc(funcStr) == stripSpaces(toLowerCase(funcStr))

has(f, str) == includes(f, str)

\* range.values[0] === v
firstValueIs(values, v) == Len(values) >= 1 /\ values[1] = v

\* mutant: ten values are enough for Poisson
poissonRuleTen(f, values) ==
    /\ Len(values) > 9 /\ firstValueIs(values, Num(0))
    /\ has(f, <<"!">>) \/ has(f, <<"f", "a", "c", "t", "o", "r", "i", "a", "l">>)
    /\ has(f, <<"e", "^">>) \/ has(f, <<"e", "x", "p">>)

poissonRule(f, values) ==
    /\ Len(values) > 10 /\ firstValueIs(values, Num(0))
    /\ has(f, <<"!">>) \/ has(f, <<"f", "a", "c", "t", "o", "r", "i", "a", "l">>)
    /\ has(f, <<"e", "^">>) \/ has(f, <<"e", "x", "p">>)

\* `-${range.values[0]}` is "-0" here, the first value being 0
binomialRule(f, values) ==
    /\ Len(values) > 1 /\ firstValueIs(values, Num(0)) /\ has(f, <<"^">>)
    /\ has(f, <<"-", "0">>) \/ has(f, <<"-", "x">>)

geometricRule(f, values) ==
    /\ firstValueIs(values, Num(1)) /\ has(f, <<"^">>)
    /\ has(f, <<"x", "-", "1">>) \/ has(f, <<"x">>)

betaRule(f, range) ==
    /\ range.min = Num(0) /\ range.max = Num(1)
    /\ has(f, <<"x", "^">>) /\ has(f, <<"(", "1", "-", "x", ")">>)

exponentialRule(f, range) ==
    /\ range.min = Num(0) /\ range.max = PInf
    /\ has(f, <<"e", "^">>) /\ ~has(f, <<"x", "*", "e">>) /\ ~has(f, <<"x", "^">>)

\* parts[0].replace(/\*/g, '') || "1"
orOne(pre) == IF Len(pre) = 0 THEN <<"1">> ELSE pre

\* if (isNaN(lam)) lam = "\\lambda"
orLambda(lam) == IF isNaN(lam) THEN LambdaSymbol ELSE lam

NotStar(c) == c # "*"

\* mutant: the coefficient is parsed with its '*' characters left in
exponentialRateKeepStar(f) ==
    orLambda(parseFloat(orOne(split(f, <<"e", "^">>)[1])))

\* the rate of the Exponential match: the text before the first 'e^', its
\* '*' characters removed, parsed as a number
exponentialRate(f) ==
    orLambda(parseFloat(orOne(SelectSeq(split(f, <<"e", "^">>)[1], NotStar))))

gammaRule(f, range) ==
    /\ range.min = Num(0) /\ range.max = PInf
    /\ has(f, <<"x", "^">>) \/ has(f, <<"x", "*">>)
    /\ has(f, <<"e", "^">>) \/ has(f, <<"e", "x", "p">>)

normalRule(f, range) ==
    /\ range.min = NInf /\ range.max = PInf
    /\ has(f, <<"e", "^">>) /\ has(f, <<"x", "^", "2">>)

\* Math.abs(fCalc.evaluate({x: mid}) - height) < 0.01; a throw is caught
nearHeight(atMid, height) ==
    atMid.ok /\ Less(MathAbs(Sub(atMid.val, height)), Rat(1, 100))

uniformRule(funcStr, range) ==
    /\ isFinite(range.min) /\ isFinite(range.max)
    /\ nearHeight(evaluate(cleanForEval(funcStr),
                           Div(Add(range.min, range.max), Num(2))),
                  Div(Num(1), Sub(range.max, range.min)))

identifyDiscrete(f, values) ==
    IF poissonRule(f, values) THEN Match("poisson", Undefined)
    ELSE IF binomialRule(f, values) THEN Match("binomial", values[Len(values)])
    ELSE IF geometricRule(f, values) THEN Match("geometric", Undefined)
    ELSE NoMatch

\* mutant: the Gamma rule is consulted before the Exponential rule
identifyContinuousGammaFirst(f, funcStr, range) ==
    IF betaRule(f, range) THEN Match("beta", Undefined)
    ELSE IF gammaRule(f, range) THEN Match("gamma", Undefined)
    ELSE IF exponentialRule(f, range) THEN Match("exponential", exponentialRate(f))
    ELSE IF normalRule(f, range) THEN Match("normal", Undefined)
    ELSE IF uniformRule(funcStr, range) THEN Match("uniform", Undefined)
    ELSE NoMatch

identifyContinuous(f, funcStr, range) ==
    IF betaRule(f, range) THEN Match("beta", Undefined)
    ELSE IF exponentialRule(f, range) THEN Match("exponential", exponentialRate(f))
    ELSE IF gammaRule(f, range) THEN Match("gamma", Undefined)
    ELSE IF normalRule(f, range) THEN Match("normal", Undefined)
    ELSE IF uniformRule(funcStr, range) THEN Match("uniform", Undefined)
    ELSE NoMatch

identifyDistribution(funcStr, range) ==
    IF range.type = "discrete" THEN identifyDiscrete(normalizeFunc(funcStr), range.values)
    ELSE IF range.type = "continuous"
    THEN identifyContinuous(normalizeFunc(funcStr), funcStr, range)
    ELSE NoMatch

----------------------------------------------------------------------------
(* Modules.custom_uni.calculate, the Analyze button's handler *)

\* the states of the symbolic library: not loaded, loaded and raising on
\* every call, loaded and answering
LibraryStates == {"absent", "throws", "works"}

\* mutant: a throw of the library is not turned into null
trySymbolicIntegrationNoCatch(lib) ==
    IF lib = "absent" THEN "null"
    ELSE "tex"

\* StatCore.trySymbolicIntegration: the TeX of the antiderivative, or null
trySymbolicIntegration(lib) ==
    IF lib = "absent" THEN "null"
    ELSE IF lib = "throws" THEN "null"
    ELSE "tex"

\* StatCore.getSymbolicCDF: the antiderivative, cdf and survival texts, or null
getSymbolicCDF(range, lib) ==
    IF range.type # "continuous" \/ lib = "absent" THEN "null"
    ELSE IF lib = "throws" THEN "null"
    ELSE "tex"

\* only the discrete families carry a PGF (pgf: null in the others)
hasPgf(match) == match.type \in {"poisson", "binomial", "geometric"}

\* section 3 of the output: which branch renders the MGF
mgfSection(match, range, indefinite) ==
    IF match # NoMatch THEN "recognized"
    ELSE IF range.type = "continuous"
    THEN (IF indefinite # "null" THEN "symbolic" ELSE "numerical")
    ELSE "sum"

\* the PGF section
pgfSection(match, range, indefinitePGF) ==
    IF match # NoMatch /\ hasPgf(match) THEN "recognized"
    ELSE IF range.type = "discrete" THEN "sum"
    ELSE IF indefinitePGF # "null" THEN "symbolic"
    ELSE "integral"

\* section 4: the CDF and the survival function
cdfSection(range, symCDF) ==
    IF range.type = "discrete" THEN "step"
    ELSE IF symCDF # "null" THEN "symbolic"
    ELSE "integral"

NoAnalysis ==
    [done |-> FALSE, error |-> FALSE, func |-> <<>>, rangeStr |-> <<>>, range |-> NoRange,
     validation |-> [isValid |-> FALSE, total |-> Undefined],
     mean |-> Undefined, secMom |-> Undefined, variance |-> Undefined,
     distInfo |-> NoMatch, mgf |-> "none", pgf |-> "none", cdf |-> "none",
     cdfButton |-> FALSE]

\* `x * (${cleanF})` and `x^2 * (${cleanF})`
xFunc(cleanF) == <<"x", " ", "*", " ", "(">> \o cleanF \o <<")">>
x2Func(cleanF) == <<"x", "^", "2", " ", "*", " ", "(">> \o cleanF \o <<")">>

\* the sum or the integral of a derived expression over the range
rawMoment(expr, range) ==
    IF range.type = "discrete" THEN summate(expr, range.values)
    ELSE integrate(expr, range.min, range.max, DefaultSteps)

\* mutant: the division is not guarded by total > 0
normalizeMomentUnguarded(raw, validation) ==
    IF ~validation.isValid THEN Div(raw, validation.total) ELSE raw

\* the "Normalization" step applied to one raw moment
normalizeMoment(raw, validation) ==
    IF ~validation.isValid /\ Less(Num(0), validation.total)
    THEN Div(raw, validation.total)
    ELSE raw

\* the end of calculate: the variance, and what the handler renders and what
\* the closure of its listener keeps
rendered(func, rangeStr, range, validation, mean, secMom, match, lib) ==
    [done |-> TRUE, error |-> FALSE, func |-> func, rangeStr |-> rangeStr,
     range |-> range, validation |-> validation, mean |-> mean, secMom |-> secMom,
     variance |-> Sub(secMom, Mul(mean, mean)),
     distInfo |-> match,
     mgf |-> mgfSection(match, range, trySymbolicIntegration(lib)),
     pgf |-> pgfSection(match, range, trySymbolicIntegration(lib)),
     cdf |-> cdfSection(range, getSymbolicCDF(range, lib)),
     cdfButton |-> TRUE]

\* step 2 of calculate: the two moments, normalized
moments(func, rangeStr, range, validation, cleanF, lib) ==
    rendered(func, rangeStr, range, validation,
             normalizeMoment(rawMoment(xFunc(cleanF), range), validation),
             normalizeMoment(rawMoment(x2Func(cleanF), range), validation),
             identifyDistribution(func, range), lib)

\* calculate after parseRange: the discrete check, then validation
analyse(func, rangeStr, range, lib) ==
    IF range.type = "discrete" /\ Len(range.values) = 0
    THEN [NoAnalysis EXCEPT !.done = TRUE, !.error = TRUE, !.func = func,
                            !.rangeStr = rangeStr, !.range = range]
    ELSE moments(func, rangeStr, range, validateDistribution(func, range),
                 cleanForEval(func), lib)

\* lib is the state of the symbolic library the handler finds
calculate(func, rangeStr, lib) == analyse(func, rangeStr, parseRange(rangeStr), lib)

----------------------------------------------------------------------------
(* The listener calculate adds to the button of the CDF section.  Its       *)
(* closure holds func, range and validation of the run that added it.       *)
(* out.innerHTML = html replaces the button, the k field and the result     *)
(* line by new elements.                                                     *)

\* no button: the page before an analysis, or after the discrete error
NoQuery == [listeners |-> <<>>, k |-> Undefined, answers |-> <<>>]

closureOf(run) == [func |-> run.func, range |-> run.range, validation |-> run.validation]

\* mutant: the button and its listeners outlive the analysis
installedKept(before, run) ==
    IF run.cdfButton
    THEN [listeners |-> Append(before.listeners, closureOf(run)), k |-> Undefined,
          answers |-> <<>>]
    ELSE NoQuery

\* the page after a run of calculate: a new button with the listener of this
\* run, and an empty result line
installed(before, run) ==
    IF run.cdfButton
    THEN [listeners |-> <<closureOf(run)>>, k |-> Undefined, answers |-> <<>>]
    ELSE NoQuery

\* range.values.filter(v => v <= k)
valuesUpTo(values, k) == SelectSeq(values, LAMBDA v : LessEq(v, k))

\* let upper = k; if(k > range.max) upper = range.max
upperAfterMax(range, k) == IF Less(range.max, k) THEN range.max ELSE k

\* if(k < range.min) upper = range.min
clampedUpper(range, k) == IF Less(k, range.min) THEN range.min ELSE upperAfterMax(range, k)

\* the sum over the values up to k, or the integral from min to the upper bound
queryProb(closure, k) ==
    IF closure.range.type = "discrete"
    THEN summate(cleanForEval(closure.func), valuesUpTo(closure.range.values, k))
    ELSE integrate(cleanForEval(closure.func), closure.range.min,
                   clampedUpper(closure.range, k), DefaultSteps)

\* if(validation.total > 0) prob /= validation.total
queryNormalized(prob, total) == IF Less(Num(0), total) THEN Div(prob, total) ELSE prob

\* Math.min and Math.max: not-a-number when an argument is
mathMin(a, b) == IF isNaN(a) \/ isNaN(b) THEN NaN ELSE IF Less(b, a) THEN b ELSE a
mathMax(a, b) == IF isNaN(a) \/ isNaN(b) THEN NaN ELSE IF Less(a, b) THEN b ELSE a

\* Math.max(0, Math.min(1, prob))
clampUnit(prob) == mathMax(Num(0), mathMin(Num(1), prob))

\* the line a listener writes: P(X <= k) and S(k)
answerLine(k, prob) == [k |-> k, prob |-> prob, surv |-> Sub(Num(1), prob)]

listenerAnswer(closure, k) ==
    answerLine(k, clampUnit(queryNormalized(queryProb(closure, k), closure.validation.total)))

\* a click with k in the field: every listener of the button runs; one that
\* reads a not-a-number k returns at once
clicked(page, k) ==
    IF isNaN(k) THEN [page EXCEPT !.k = k]
    ELSE [page EXCEPT !.k = k,
                      !.answers = [i \in 1..Len(page.listeners) |->
                                      listenerAnswer(page.listeners[i], k)]]

\* no call of integrate recorded, and the Binomial calculator before a click
NoQuad == [done |-> FALSE]
NoBin == [shown |-> FALSE]
NoClean == [done |-> FALSE, once |-> <<>>, twice |-> <<>>]
\* the Normal calculator when its module is not the one loaded
NoNormal == [shown |-> FALSE, pc |-> "idle"]

\* window.myChart: the handle holds no chart, a chart, or a chart that was
\* destroyed; live counts the charts created and not destroyed; heldLatest
\* tells whether the handle refers to the chart created last
NoChart == [held |-> "none", live |-> 0, heldLatest |-> TRUE, shape |-> <<>>]

\* mutant: the chart the handle holds is left as it is
destroyHeldSkipped(chart) == chart

\* if (window.myChart) window.myChart.destroy()
destroyHeld(chart) ==
    IF chart.held = "none" THEN chart
    ELSE [chart EXCEPT !.held = "destroyed",
                       !.live = IF chart.held = "live" THEN chart.live - 1 ELSE chart.live]

\* window.myChart = new Chart(ctx, ...)
newChart(chart, type, size) ==
    [held |-> "live", live |-> chart.live + 1, heldLatest |-> TRUE,
     shape |-> <<[type |-> type, size |-> size]>>]

\* texts typed into the function field
FuncTexts ==
    { <<"x">>, <<"1">>, <<"0", ".", "5">>, <<"0", ".", "9", "5">>, <<"2", "x">>,
      <<"X", "/", "2">>, <<"-", "1">>, <<"1", " ", "-", " ", "x">>, <<"1", "/", "x">>,
      <<"(">> }

\* texts typed into the range field (unbounded ranges are left out: over the
\* surrogate bound of 100 the squared moments exceed the integers of the model)
AnalyzedRangeTexts ==
    { <<"0", "<", "x", "<", "2">>, <<"0", " ", "<", " ", "x", " ", "<", "=", " ", "1">>,
      <<"-", "1", "<", "x", "<", "0">>, <<"0", ",", "1">>, <<"1", ",", "2">>,
      <<"2", "<", "x", "<", "0">> }

\* the two fields hold some text, nothing has been analysed yet
Init ==
    /\ rangeInput \in AnalyzedRangeTexts
    /\ funcInput \in FuncTexts \cup {<<>>}
    /\ parsed = NoRange
    /\ analysis = NoAnalysis
    /\ nerdamer \in LibraryStates
    /\ distInfo = NoMatch
    /\ quad = NoQuad
    /\ bin = NoBin
    /\ cleaned = NoClean
    /\ normal = NoNormal
    /\ myChart = NoChart
    /\ query = NoQuery

\* the user edits the function field
EditFunc ==
    /\ \E f \in FuncTexts : funcInput' = f
    /\ UNCHANGED <<rangeInput, parsed, analysis, nerdamer, distInfo, quad, bin, cleaned, normal, myChart, query>>

\* the user edits the range field
EditRange ==
    /\ \E r \in AnalyzedRangeTexts : rangeInput' = r
    /\ UNCHANGED <<funcInput, parsed, analysis, nerdamer, distInfo, quad, bin, cleaned, normal, myChart, query>>

\* a click on Analyze
Analyze ==
    /\ analysis' = calculate(funcInput, rangeInput, nerdamer)
    /\ query' = installed(query, calculate(funcInput, rangeInput, nerdamer))
    /\ UNCHANGED <<rangeInput, funcInput, parsed, nerdamer, distInfo, quad, bin, cleaned, normal, myChart>>

Next == EditFunc \/ EditRange \/ Analyze

Spec == Init /\ [][Next]_vars

----------------------------------------------------------------------------
(* The analyzer on ranges without a lower or an upper bound.  The           *)
(* expressions are constant over the range, e^-0x included: integrate and   *)
(* the moments then stay within the integers of the model, and exp is       *)
(* applied to 0 only.                                                        *)

DecayFuncTexts ==
    { <<"e", "^", "-", "0", "x">>,
      <<"0", ".", "0", "1", "e", "^", "-", "0", "x">>,
      <<"E", "^", "(", "-", "0", "x", ")">>, <<"1">>,
      <<"0", ".", "0", "0", "5">>, <<"e", "x", "p", "(", "-", "0", "x", ")">> }

UnboundedRangeTexts ==
    { <<"x", "<", "0">>, <<"x", " ", "<", " ", "5">>, <<>>,
      <<"-", "i", "n", "f", "<", "x", "<", "i", "n", "f">>,
      <<"-", "i", "n", "f", " ", "<", " ", "x", " ", "<", " ", "0">>,
      <<"x", ">", "0">>, <<"0", "<", "x", "<", "i", "n", "f">> }

InitUnbounded ==
    /\ rangeInput \in UnboundedRangeTexts
    /\ funcInput \in DecayFuncTexts
    /\ parsed = NoRange
    /\ analysis = NoAnalysis
    /\ nerdamer \in LibraryStates
    /\ distInfo = NoMatch
    /\ quad = NoQuad
    /\ bin = NoBin
    /\ cleaned = NoClean
    /\ normal = NoNormal
    /\ myChart = NoChart
    /\ query = NoQuery

\* the user edits the function field
EditDecayFunc ==
    /\ \E f \in DecayFuncTexts : funcInput' = f
    /\ UNCHANGED <<rangeInput, parsed, analysis, nerdamer, distInfo, quad, bin, cleaned, normal, myChart, query>>

\* the user edits the range field
EditUnboundedRange ==
    /\ \E r \in UnboundedRangeTexts : rangeInput' = r
    /\ UNCHANGED <<funcInput, parsed, analysis, nerdamer, distInfo, quad, bin, cleaned, normal, myChart, query>>

NextUnbounded == EditDecayFunc \/ EditUnboundedRange \/ Analyze

SpecUnbounded == InitUnbounded /\ [][NextUnbounded]_vars

----------------------------------------------------------------------------
(* StatCore.factorial, StatCore.nCr and the Binomial calculator              *)
(* (Modules.bin.render and its Calculate handler).  n and k are the numbers  *)
(* parseInt reads from their fields (an integer, or NaN for an empty or      *)
(* unparsable field), p the number parseFloat reads.  A call gives           *)
(* [ok, val]: the value it returns, or ok = FALSE when it raises.            *)

\* the calls the model follows a recursion down to: a deeper one raises, as
\* the RangeError of a full call stack does
MaxDepth == 12

Returned(v) == Value(v, 0)

\* n * StatCore.factorial(n - 1), given what the inner call gave
timesInner(n, inner) == IF inner.ok THEN Returned(Mul(n, inner.val)) ELSE Thrown

RECURSIVE descend(_, _)
\* factorial with depth calls left on the stack
descend(n, depth) ==
    IF depth = 0 THEN Thrown
    ELSE IF LessEq(n, Num(1)) THEN Returned(Num(1))
    ELSE timesInner(n, descend(Sub(n, Num(1)), depth - 1))

factorial(n) == descend(n, MaxDepth)

\* a / (b * c) of three calls, raising when one of them raises
quotient(a, b, c) ==
    IF a.ok /\ b.ok /\ c.ok THEN Returned(Div(a.val, Mul(b.val, c.val))) ELSE Thrown

\* mutant: the factor (n - r)! is missing from the denominator
nCrPermutations(n, r) ==
    IF Less(r, Num(0)) \/ Less(n, r) THEN Returned(Num(0))
    ELSE quotient(factorial(n), factorial(r), Returned(Num(1)))

nCr(n, r) ==
    IF Less(r, Num(0)) \/ Less(n, r) THEN Returned(Num(0))
    ELSE quotient(factorial(n), factorial(r), factorial(Sub(n, r)))

\* nCr(n, val) * Math.pow(p, val) * Math.pow(1-p, n-val), given the coefficient
weighted(coefficient, n, p, val) ==
    IF coefficient.ok
    THEN Returned(Mul(Mul(coefficient.val, Pow(p, val)), Pow(Sub(Num(1), p), Sub(n, val))))
    ELSE Thrown

\* the closure pmf of the handler
pmf(n, p, val) ==
    IF Less(val, Num(0)) \/ Less(n, val) THEN Returned(Num(0))
    ELSE weighted(nCr(n, val), n, p, val)

\* sum += pmf(i), given the sum of the turns that follow
plus(term, rest) ==
    IF term.ok /\ rest.ok THEN Returned(Add(term.val, rest.val)) ELSE Thrown

RECURSIVE pmfSum(_, _, _, _)
\* for (let i = from; i <= to; i++) sum += pmf(i)
pmfSum(n, p, from, to) ==
    IF ~LessEq(Num(from), to) THEN Returned(Num(0))
    ELSE plus(pmf(n, p, Num(from)), pmfSum(n, p, from + 1, to))

\* both optional fields are filled
bounded(fields) == fields.low # <<>> /\ fields.high # <<>>

\* the sum of the range calculation
rangeSum(fields) == pmfSum(fields.n, fields.p, fields.low[1], Num(fields.high[1]))

\* the optional P(low <= X <= high): written when both fields are filled;
\* otherwise the range panel keeps what it showed
rangeResult(fields) ==
    IF bounded(fields) THEN rangeSum(fields).val ELSE fields.out.range

\* the results are written: the three numbers and the Excel hints (which
\* show k, n and p)
binShown(fields, probK, cdfVal) ==
    [fields EXCEPT !.shown = TRUE, !.raised = FALSE,
                   !.out = [n |-> fields.n, p |-> fields.p, k |-> fields.k,
                            pdf |-> probK, cdf |-> cdfVal, surv |-> Sub(Num(1), cdfVal),
                            range |-> fields.out.range]]

\* the range calculation after the results: it writes the range panel, or it
\* raises and the handler ends there
binRange(shown) ==
    IF bounded(shown) /\ ~rangeSum(shown).ok THEN [shown EXCEPT !.raised = TRUE]
    ELSE [shown EXCEPT !.out.range = rangeResult(shown)]

\* the handler after its two computations: when one of them raised nothing is
\* written
binWritten(fields, cdfVal, probK) ==
    IF cdfVal.ok /\ probK.ok THEN binRange(binShown(fields, probK.val, cdfVal.val))
    ELSE [fields EXCEPT !.raised = TRUE]

\* the Calculate handler on the fields of the calculator
binCalculate(fields) ==
    binWritten(fields, pmfSum(fields.n, fields.p, 0, fields.k),
               pmf(fields.n, fields.p, fields.k))

\* Array.from({length: n + 1}): the length of the list of bars
barCount(n) == IF isFinite(n) /\ n.n + 1 > 0 THEN n.n + 1 ELSE 0

\* the end of the handler, which a handler that raised does not reach: the
\* chart the handle holds is destroyed, and a bar chart is created and stored
binChart(after, chart) ==
    IF after.raised THEN chart
    ELSE newChart(destroyHeld(chart), "bar", barCount(after.n))

\* the calculator as render builds it: n = 10, p = 0.5, target 5, no bounds.
\* An optional field is a sequence: empty, or holding its one value.
BinRendered ==
    [n |-> Num(10), p |-> Rat(1, 2), k |-> Num(5), low |-> <<>>, high |-> <<>>,
     shown |-> FALSE, raised |-> FALSE,
     out |-> [n |-> Undefined, p |-> Undefined, k |-> Undefined, pdf |-> Undefined,
              cdf |-> Undefined, surv |-> Undefined, range |-> Undefined]]

\* the numbers of trials typed into the field go up to SmallTrials, and 10
SmallTrials == 2

\* what parseInt reads from the fields n and k
TrialCounts == {Num(n) : n \in 0..SmallTrials \cup {10}} \cup {NaN}
Probabilities == {Num(0), Rat(1, 3), Rat(1, 2), Num(1)}
Targets == {Num(k) : k \in -1..SmallTrials \cup {5, 10}} \cup {NaN}
RangeBounds == {<< <<>>, <<>> >>, << <<0>>, <<10>> >>}

\* the sums of the model stay within its integers: thirds with few trials
FitsModel(n, p) == p.d <= 2 \/ ~Less(Num(SmallTrials + 1), n)

\* the fields hold some numbers, Calculate has not been clicked
BinFields ==
    {[BinRendered EXCEPT !.n = n, !.p = p, !.k = k, !.low = b[1], !.high = b[2]] :
        n \in TrialCounts, p \in Probabilities, k \in Targets, b \in RangeBounds}

InitBin ==
    /\ rangeInput = <<>>
    /\ funcInput = <<>>
    /\ parsed = NoRange
    /\ analysis = NoAnalysis
    /\ nerdamer = "absent"
    /\ distInfo = NoMatch
    /\ quad = NoQuad
    /\ bin \in {fields \in BinFields : FitsModel(fields.n, fields.p)}
    /\ cleaned = NoClean
    /\ normal = NoNormal
    /\ myChart = NoChart
    /\ query = NoQuery

\* the user edits the fields n, p, the target, or the two optional bounds
EditTrials ==
    /\ bin # NoBin /\ normal.pc = "idle"
    /\ \E n \in TrialCounts : FitsModel(n, bin.p) /\ bin' = [bin EXCEPT !.n = n]
    /\ UNCHANGED <<rangeInput, funcInput, parsed, analysis, nerdamer, distInfo, quad, cleaned, normal, myChart, query>>

EditProb ==
    /\ bin # NoBin /\ normal.pc = "idle"
    /\ \E p \in Probabilities : FitsModel(bin.n, p) /\ bin' = [bin EXCEPT !.p = p]
    /\ UNCHANGED <<rangeInput, funcInput, parsed, analysis, nerdamer, distInfo, quad, cleaned, normal, myChart, query>>

EditTarget ==
    /\ bin # NoBin /\ normal.pc = "idle"
    /\ \E k \in Targets : bin' = [bin EXCEPT !.k = k]
    /\ UNCHANGED <<rangeInput, funcInput, parsed, analysis, nerdamer, distInfo, quad, cleaned, normal, myChart, query>>

EditBounds ==
    /\ bin # NoBin /\ normal.pc = "idle"
    /\ \E b \in RangeBounds : bin' = [bin EXCEPT !.low = b[1], !.high = b[2]]
    /\ UNCHANGED <<rangeInput, funcInput, parsed, analysis, nerdamer, distInfo, quad, cleaned, normal, myChart, query>>

\* a click on Calculate
BinCalculate ==
    /\ bin # NoBin /\ normal.pc = "idle"
    /\ bin' = binCalculate(bin)
    /\ myChart' = binChart(binCalculate(bin), myChart)
    /\ UNCHANGED <<rangeInput, funcInput, parsed, analysis, nerdamer, distInfo, quad, cleaned, normal, query>>

\* the fields hold any of their values at the start; the target and the
\* bounds are edited between clicks
NextBin == EditTarget \/ EditBounds \/ BinCalculate

SpecBin == InitBin /\ [][NextBin]_vars

----------------------------------------------------------------------------
(* The Normal calculator (Modules.normal.render and its Calculate handler). *)
(* mu, sigma and the target are the numbers parseFloat reads from their     *)
(* fields.  The density and the error function take irrational values: the  *)
(* model records that the results are shown and for which inputs, not the   *)
(* values.  The handler is three steps: the part before the chart-sampling  *)
(* loop, one turn of the loop, and the part after it; JavaScript runs a     *)
(* handler to its end, so nothing else acts while the loop is running.      *)

\* the model gives up a sampling loop that has pushed this many points
MaxPoints == 104

\* the range panel: "P(low <= X <= high)" when both fields are filled;
\* otherwise it keeps what it showed
normalRange(fields) ==
    IF fields.low # <<>> /\ fields.high # <<>>
    THEN <<fields.low[1], fields.high[1]>>
    ELSE fields.out.range

\* start = mu - 4*sig, end = mu + 4*sig, step = (end - start)/100
samplingStart(mu, sig) == Sub(mu, Mul(Num(4), sig))
samplingEnd(mu, sig) == Add(mu, Mul(Num(4), sig))
samplingStep(mu, sig) ==
    Div(Sub(samplingEnd(mu, sig), samplingStart(mu, sig)), Num(100))

\* the handler up to the loop: results, steps, Excel hint and range are
\* written, and the loop variable i is set to start
normalShown(fields) ==
    [fields EXCEPT !.shown = TRUE,
                   !.out = [mu |-> fields.mu, sig |-> fields.sig, x |-> fields.x,
                            range |-> normalRange(fields)],
                   !.pc = "sampling",
                   !.i = samplingStart(fields.mu, fields.sig),
                   !.end = samplingEnd(fields.mu, fields.sig),
                   !.step = samplingStep(fields.mu, fields.sig),
                   !.points = 0]

\* one turn of for(let i=start; i<=end; i+=step): a point is pushed
sampled(fields) ==
    [fields EXCEPT !.points = fields.points + 1, !.i = Add(fields.i, fields.step)]

\* the calculator as render builds it: mu = 0, sigma = 1, target 1.96
NormalRendered ==
    [mu |-> Num(0), sig |-> Num(1), x |-> Rat(196, 100), low |-> <<>>, high |-> <<>>,
     shown |-> FALSE,
     out |-> [mu |-> Undefined, sig |-> Undefined, x |-> Undefined, range |-> <<>>],
     pc |-> "idle", i |-> Undefined, end |-> Undefined, step |-> Undefined, points |-> 0]

Means == {Num(0), Num(1), NaN}
Deviations == {Num(1), Rat(1, 2), Num(0), Num(-1), NaN}
NormalTargets == {Rat(196, 100), Num(0), NaN}
NormalBounds == {<< <<>>, <<>> >>, << <<0>>, <<1>> >>}

InitNormal ==
    /\ rangeInput = <<>>
    /\ funcInput = <<>>
    /\ parsed = NoRange
    /\ analysis = NoAnalysis
    /\ nerdamer = "absent"
    /\ distInfo = NoMatch
    /\ quad = NoQuad
    /\ bin = NoBin
    /\ cleaned = NoClean
    /\ normal = NormalRendered
    /\ myChart = NoChart
    /\ query = NoQuery

\* the user edits the fields mu, sigma, the target, or the optional bounds
EditMean ==
    /\ normal # NoNormal /\ normal.pc = "idle"
    /\ \E mu \in Means : normal' = [normal EXCEPT !.mu = mu]
    /\ UNCHANGED <<rangeInput, funcInput, parsed, analysis, nerdamer, distInfo, quad, bin, cleaned, myChart, query>>

EditDeviation ==
    /\ normal # NoNormal /\ normal.pc = "idle"
    /\ \E sig \in Deviations : normal' = [normal EXCEPT !.sig = sig]
    /\ UNCHANGED <<rangeInput, funcInput, parsed, analysis, nerdamer, distInfo, quad, bin, cleaned, myChart, query>>

EditNormalTarget ==
    /\ normal # NoNormal /\ normal.pc = "idle"
    /\ \E x \in NormalTargets : normal' = [normal EXCEPT !.x = x]
    /\ UNCHANGED <<rangeInput, funcInput, parsed, analysis, nerdamer, distInfo, quad, bin, cleaned, myChart, query>>

EditNormalBounds ==
    /\ normal # NoNormal /\ normal.pc = "idle"
    /\ \E b \in NormalBounds : normal' = [normal EXCEPT !.low = b[1], !.high = b[2]]
    /\ UNCHANGED <<rangeInput, funcInput, parsed, analysis, nerdamer, distInfo, quad, bin, cleaned, myChart, query>>

\* a click on Calculate: the handler up to its loop
NormalCalculate ==
    /\ normal # NoNormal /\ normal.pc = "idle"
    /\ normal' = normalShown(normal)
    /\ myChart' = destroyHeld(myChart)
    /\ UNCHANGED <<rangeInput, funcInput, parsed, analysis, nerdamer, distInfo, quad, bin, cleaned, query>>

\* one turn of the loop
NormalSample ==
    /\ normal.pc = "sampling"
    /\ LessEq(normal.i, normal.end)
    /\ normal.points < MaxPoints
    /\ normal' = sampled(normal)
    /\ UNCHANGED <<rangeInput, funcInput, parsed, analysis, nerdamer, distInfo, quad, bin, cleaned, myChart, query>>

\* the loop has ended: the line chart is created and stored
NormalChart ==
    /\ normal.pc = "sampling"
    /\ ~LessEq(normal.i, normal.end)
    /\ normal' = [normal EXCEPT !.pc = "idle"]
    /\ myChart' = newChart(myChart, "line", normal.points)
    /\ UNCHANGED <<rangeInput, funcInput, parsed, analysis, nerdamer, distInfo, quad, bin, cleaned, query>>

NextNormal ==
    \/ EditMean \/ EditDeviation \/ EditNormalTarget \/ EditNormalBounds
    \/ NormalCalculate \/ NormalSample \/ NormalChart

SpecNormal == InitNormal /\ [][NextNormal]_vars

\* a handler that has started runs on: the loop takes its next turn, and the
\* part after the loop follows the last turn
SpecNormalFair ==
    SpecNormal /\ WF_vars(NormalSample) /\ WF_vars(NormalChart)

----------------------------------------------------------------------------
(* The two calculators and UI.loadModule: a click on a topic empties the    *)
(* page and renders the module, whose fields hold their defaults again;     *)
(* window.myChart is left as it is.                                          *)

InitCharts ==
    /\ rangeInput = <<>>
    /\ funcInput = <<>>
    /\ parsed = NoRange
    /\ analysis = NoAnalysis
    /\ nerdamer = "absent"
    /\ distInfo = NoMatch
    /\ quad = NoQuad
    /\ bin = NoBin
    /\ cleaned = NoClean
    /\ normal = NoNormal
    /\ myChart = NoChart
    /\ query = NoQuery

\* UI.loadModule('bin')
LoadBin ==
    /\ normal.pc = "idle"
    /\ bin' = BinRendered
    /\ normal' = NoNormal
    /\ UNCHANGED <<rangeInput, funcInput, parsed, analysis, nerdamer, distInfo, quad, cleaned, myChart, query>>

\* UI.loadModule('normal')
LoadNormal ==
    /\ normal.pc = "idle"
    /\ bin' = NoBin
    /\ normal' = NormalRendered
    /\ UNCHANGED <<rangeInput, funcInput, parsed, analysis, nerdamer, distInfo, quad, cleaned, myChart, query>>

\* UI.loadModule of a module without a chart
LoadOther ==
    /\ normal.pc = "idle"
    /\ bin' = NoBin
    /\ normal' = NoNormal
    /\ UNCHANGED <<rangeInput, funcInput, parsed, analysis, nerdamer, distInfo, quad, cleaned, myChart, query>>

NextCharts ==
    \/ LoadBin \/ LoadNormal \/ LoadOther
    \/ EditTrials \/ EditProb \/ BinCalculate
    \/ EditDeviation \/ NormalCalculate \/ NormalSample \/ NormalChart

SpecCharts == InitCharts /\ [][NextCharts]_vars

----------------------------------------------------------------------------
(* The analyzer with its CDF query *)

QueryFuncTexts ==
    { <<"1">>, <<"x">>, <<"-", "1">>, <<"0", ".", "5">>, <<"1", "+", "0", "/", "x">> }

QueryRangeTexts ==
    { <<"0", "<", "x", "<", "2">>, <<"2", "<", "x", "<", "0">>,
      <<"-", "1", "<", "x", "<", "1">>, <<"0", ",", "1">> }

\* what parseFloat reads from the k field
QueryTargets == {NaN, Num(-1), Num(0), Rat(1, 2), Num(1), Num(2), Num(3)}

InitQuery ==
    /\ rangeInput \in QueryRangeTexts
    /\ funcInput \in QueryFuncTexts
    /\ parsed = NoRange
    /\ analysis = NoAnalysis
    /\ nerdamer = "absent"
    /\ distInfo = NoMatch
    /\ quad = NoQuad
    /\ bin = NoBin
    /\ cleaned = NoClean
    /\ normal = NoNormal
    /\ myChart = NoChart
    /\ query = NoQuery

EditQueryFunc ==
    /\ \E f \in QueryFuncTexts : funcInput' = f
    /\ UNCHANGED <<rangeInput, parsed, analysis, nerdamer, distInfo, quad, bin, cleaned, normal, myChart, query>>

EditQueryRange ==
    /\ \E r \in QueryRangeTexts : rangeInput' = r
    /\ UNCHANGED <<funcInput, parsed, analysis, nerdamer, distInfo, quad, bin, cleaned, normal, myChart, query>>

\* the user types k and clicks the button of the CDF section
CdfClick ==
    /\ Len(query.listeners) > 0
    /\ \E k \in QueryTargets : query' = clicked(query, k)
    /\ UNCHANGED <<rangeInput, funcInput, parsed, analysis, nerdamer, distInfo, quad, bin, cleaned, normal, myChart>>

NextQuery == EditQueryFunc \/ EditQueryRange \/ Analyze \/ CdfClick

SpecQuery == InitQuery /\ [][NextQuery]_vars

----------------------------------------------------------------------------
(* cleanForEval applied to a text, and again to what it returned *)

\* the longest text given to cleanForEval
MaxCleanLen == 4

\* one or two characters of each kind the two regular expressions tell apart
CleanChars == {"2", "e", "x", "E", " ", "^", "*", "-", "(", ")", "+"}

RECURSIVE TextsOver(_, _)
\* the texts of length at most len over the characters chars
TextsOver(chars, len) ==
    IF len = 0 THEN {<<>>}
    ELSE TextsOver(chars, len - 1) \cup
         {Append(t, c) : t \in {u \in TextsOver(chars, len - 1) : Len(u) = len - 1},
                         c \in chars}

CleanTexts == TextsOver(CleanChars, MaxCleanLen)

InitClean ==
    /\ rangeInput = <<>>
    /\ funcInput \in CleanTexts
    /\ parsed = NoRange
    /\ analysis = NoAnalysis
    /\ nerdamer = "absent"
    /\ distInfo = NoMatch
    /\ quad = NoQuad
    /\ bin = NoBin
    /\ cleaned = NoClean
    /\ normal = NoNormal
    /\ myChart = NoChart
    /\ query = NoQuery

\* cleanForEval called on the function text, then on its own result
Clean ==
    /\ ~cleaned.done
    /\ cleaned' = [done |-> TRUE, once |-> cleanForEval(funcInput),
                   twice |-> cleanForEval(cleanForEval(funcInput))]
    /\ UNCHANGED <<rangeInput, funcInput, parsed, analysis, nerdamer, distInfo, quad, bin, normal, myChart, query>>

NextClean == Clean

SpecClean == InitClean /\ [][NextClean]_vars

----------------------------------------------------------------------------
(* parseRange applied to the texts a user can type into the range field *)

MaxTokens == 3

RangeTokens ==
    { <<"<", "x", "<">>, <<" ", "<", "=", " ", "x", " ", "<", "=", " ">>, <<"x", ">">>, <<"X", ">">>,
      <<"x", "<">>, <<"i", "n", "f">>, <<"-">>, <<"0">>, <<"5">>, <<",">>, <<".">>,
      <<"<">>, <<"=">>, <<" ">>, <<"e">> }

RECURSIVE Concat(_)
Concat(ts) == IF Len(ts) = 0 THEN <<>> ELSE Head(ts) \o Concat(Tail(ts))

\* exponents are kept to one digit, so that every parsed value fits the integers
SmallExponents(s) ==
    \A i \in 1..Len(s) :
        s[i] = "e" =>
            /\ DigitRun(s, i + 1) <= 1
            /\ (i < Len(s) /\ s[i + 1] \in {"-", "+"}) => DigitRun(s, i + 2) <= 1

RangeTexts ==
    { s \in { Concat(ts) : ts \in UNION { [1..n -> RangeTokens] : n \in 0..MaxTokens } } :
        SmallExponents(s) }

InitParse ==
    /\ rangeInput \in RangeTexts
    /\ funcInput = <<>>
    /\ parsed = NoRange
    /\ analysis = NoAnalysis
    /\ nerdamer = "absent"
    /\ distInfo = NoMatch
    /\ quad = NoQuad
    /\ bin = NoBin
    /\ cleaned = NoClean
    /\ normal = NoNormal
    /\ myChart = NoChart
    /\ query = NoQuery

\* a call StatCore.parseRange(rangeStr) on the field's text
ParseRange ==
    /\ parsed' = parseRange(rangeInput)
    /\ UNCHANGED <<rangeInput, funcInput, analysis, nerdamer, distInfo, quad, bin, cleaned, normal, myChart, query>>

NextParse == ParseRange

SpecParse == InitParse /\ [][NextParse]_vars


----------------------------------------------------------------------------
(* StatCore.integrate applied to the descriptors parseRange returns, as      *)
(* validateDistribution and calculate apply it to a continuous range         *)

RECURSIVE interiorPoints(_, _, _, _)
\* the points x of the loop, i .. steps - 1
interiorPoints(effLow, h, i, steps) ==
    IF i >= steps THEN <<>>
    ELSE <<samplePoint(effLow, h, i)>> \o interiorPoints(effLow, h, i + 1, steps)

\* what a call of integrate does: its effective bounds, the points at which
\* it evaluates the expression, and the value it returns
quadOf(funcStr, lower, upper, effLow, effHigh, steps) ==
    [done |-> TRUE, func |-> funcStr, lower |-> lower, upper |-> upper,
     effLow |-> effLow, effHigh |-> effHigh,
     points |-> <<effLow, effHigh>>
                  \o interiorPoints(effLow, Div(Sub(effHigh, effLow), Num(steps)), 1, steps),
     result |-> integrate(funcStr, lower, upper, steps)]

integrateCall(funcStr, lower, upper, steps) ==
    quadOf(funcStr, lower, upper, effectiveLow(lower), effectiveHigh(upper), steps)

QuadFuncTexts == { <<"1">>, <<"x">>, <<"0", ".", "5">>, <<"2", "x">> }

QuadRangeTexts ==
    { <<"x", ">", "0">>, <<"x", "<", "5">>, <<>>, <<"0", "<", "x", "<", "5">>,
      <<"5", "<", "x", "<", "0">>,
      <<"-", "i", "n", "f", "<", "x", "<", "i", "n", "f">>,
      <<"x", " ", ">", " ", "1", "e", "9", "9", "9">>,
      <<"x", "<", "-", "1", "e", "9", "9", "9">>,
      <<"1", "e", "9", "9", "9", "<", "x", "<", "5">>,
      <<"x", ">", "2", "0", "0">>, <<"0", "<", "x", "<", "i", "n", "f">>,
      <<"-", "5", "<", "x", "<", "-", "1">>, <<"0", ",", "5">>,
      <<"x", "<", "0">>, <<"x", ">", "1">>, <<"0", "<", "x", "<", "1">>,
      <<"-", "i", "n", "f", "<", "x", "<", "0">> }

InitQuad ==
    /\ rangeInput \in QuadRangeTexts
    /\ funcInput \in QuadFuncTexts
    /\ parsed = NoRange
    /\ analysis = NoAnalysis
    /\ nerdamer = "absent"
    /\ distInfo = NoMatch
    /\ quad = NoQuad
    /\ bin = NoBin
    /\ cleaned = NoClean
    /\ normal = NoNormal
    /\ myChart = NoChart
    /\ query = NoQuery

\* StatCore.integrate(func, range.min, range.max) on the parsed range
Integrate ==
    /\ parsed.type = "continuous"
    /\ quad' = integrateCall(funcInput, parsed.min, parsed.max, DefaultSteps)
    /\ UNCHANGED <<rangeInput, funcInput, parsed, analysis, nerdamer, distInfo, bin, cleaned, normal, myChart, query>>

NextQuad == ParseRange \/ Integrate

SpecQuad == InitQuad /\ [][NextQuad]_vars

----------------------------------------------------------------------------
(* StatCore.identifyDistribution applied to an expression and a parsed       *)
(* range, as calculate applies it                                            *)

IdentifyFuncTexts ==
    { <<"2", "*", "e", "x", "p", "(", "-", "2", "*", "x", ")">>,
      <<"2", "e", "^", "-", "2", "x">>, <<"E", "^", "-", "x">>,
      <<"2", "*", "3", "e", "^", "-", "x">>, <<"a", "e", "^", "-", "x">>,
      <<"x", "^", "2", "*", "e", "^", "-", "x">>,
      <<"x", "*", "e", "^", "-", "x">>,
      <<"x", "^", "2", " ", "e", "x", "p", "(", "-", "x", ")">>,
      <<"e", "^", "-", "x", "*", "2">>,
      <<"e", "^", "(", "-", "x", "^", "2", ")">>,
      <<"x", "^", "2", "*", "(", "1", "-", "x", ")">>, <<"1">>,
      <<"0", ".", "5">>, <<"e", "^", "-", "x", "/", "x", "!">>,
      <<"e", "x", "p", "(", "-", "2", ")", "*", "2", "^", "x", "/", "f", "a", "c", "t", "o", "r", "i", "a", "l", "(", "x", ")">>,
      <<"0", ".", "5", "^", "x", "*", "0", ".", "5", "^", "(", "2", "-", "x", ")">>,
      <<"0", ".", "5", "*", "0", ".", "5", "^", "(", "x", "-", "1", ")">>,
      <<"x">>, <<"2", "^", "x", "/", "x", "!">>, <<"*", "e", "^", "-", "x">> }

IdentifyRangeTexts ==
    { <<"x", ">", "0">>, <<"0", "<", "x", "<", "1">>,
      <<"0", "<", "x", "<", "2">>, <<>>, <<"x", "<", "0">>,
      <<"0", ",", "1", ",", "2", ",", "3", ",", "4", ",", "5", ",", "6", ",", "7", ",", "8", ",", "9", ",", "1", "0">>,
      <<"0", ",", "1", ",", "2", ",", "3", ",", "4", ",", "5", ",", "6", ",", "7", ",", "8", ",", "9">>,
      <<"0", ",", "1", ",", "2">>, <<"1", ",", "2", ",", "3">>,
      <<"x", ">", "1">>,
      <<"0", " ", "<", " ", "x", " ", "<", " ", "i", "n", "f">> }

\* an expression of numbers, x and operators only, its exponents literal
ArithmeticOnly(f) ==
    \A i \in 1..Len(f) :
        /\ IsDigit(f[i]) \/ f[i] \in {"x", ".", "^", "*", "(", ")", "-", "+", "/"}
        /\ f[i] = "^" => (i < Len(f) /\ IsDigit(f[i + 1]))

\* a text that parses to an interval with two finite bounds
BoundedText(r) ==
    /\ parseRange(r).type = "continuous"
    /\ isFinite(parseRange(r).min) /\ isFinite(parseRange(r).max)

\* the pairs of texts: over a bounded interval the Uniform rule evaluates the
\* expression, so the expressions paired with one are those the evaluator
\* of the model covers
IdentifyInputs ==
    { p \in IdentifyFuncTexts \X IdentifyRangeTexts :
        ArithmeticOnly(p[1]) \/ ~BoundedText(p[2]) }

InitIdentify ==
    /\ \E p \in IdentifyInputs : funcInput = p[1] /\ rangeInput = p[2]
    /\ parsed = NoRange
    /\ analysis = NoAnalysis
    /\ nerdamer = "absent"
    /\ distInfo = NoMatch
    /\ quad = NoQuad
    /\ bin = NoBin
    /\ cleaned = NoClean
    /\ normal = NoNormal
    /\ myChart = NoChart
    /\ query = NoQuery

\* range = StatCore.parseRange(rangeStr), then
\* distInfo = StatCore.identifyDistribution(func, range)
Identify ==
    /\ parsed' = parseRange(rangeInput)
    /\ distInfo' = identifyDistribution(funcInput, parseRange(rangeInput))
    /\ UNCHANGED <<rangeInput, funcInput, analysis, nerdamer, quad, bin, cleaned, normal, myChart, query>>

NextIdentify == Identify

SpecIdentify == InitIdentify /\ [][NextIdentify]_vars

----------------------------------------------------------------------------
(* Properties of parseRange, checked under SpecParse *)

called == parsed.type # "none"
normalized == normalizeRange(rangeInput)
infToken == <<"i", "n", "f">>

\* a token that is a numeric literal as a whole, and one written without exponent
IsNumericToken(tok) == Len(tok) > 0 /\ scanFloat(tok).end = Len(tok) + 1
IsPlainDecimal(tok) == IsNumericToken(tok) /\ \A i \in 1..Len(tok) : tok[i] \notin {"e", "E"}

\* C1: parseRange returns exactly one variant, Discrete with at least one
\* (numeric) value or Continuous with a min and a max that are numbers; when
\* the text has no continuous mark and no parsable value the result is
\* Continuous(-inf, +inf).
OneVariant ==
    called =>
        /\ parsed.type \in {"discrete", "continuous"}
        /\ parsed.type = "discrete" =>
              /\ Len(parsed.values) >= 1
              /\ \A i \in 1..Len(parsed.values) : isFinite(parsed.values[i])
              /\ parsed.min = Undefined /\ parsed.max = Undefined
        /\ parsed.type = "continuous" =>
              /\ parsed.values = <<>>
              /\ ~isNaN(parsed.min) /\ ~isNaN(parsed.max)
        /\ (~isContinuousText(normalized) /\ discreteValues(normalized) = <<>>) =>
              parsed = Continuous(NInf, PInf)

\* C1 witness: a non-empty text without inequality or infinity token and
\* without any parsable number has been parsed to the unbounded fallback
FallbackReached ==
    /\ called
    /\ Len(rangeInput) > 0
    /\ ~isContinuousText(normalized)
    /\ \E i \in 1..Len(rangeInput) : rangeInput[i] \in {",", ".", "-"}
    /\ parsed = Continuous(NInf, PInf)

\* C2 (as claimed): every Continuous descriptor with two finite bounds has
\* min <= max
ContinuousOrdered ==
    (called /\ parsed.type = "continuous" /\ isFinite(parsed.min) /\ isFinite(parsed.max))
        => ~Less(parsed.max, parsed.min)

BetweenSeparators ==
    { <<"<", "x", "<">>, <<"<", "=", "x", "<">>, <<"<", "x", "<", "=">>,
      <<"<", "=", "x", "<", "=">> }

\* C3: a text "a<x<b" (also with <= and with whitespace) with a, b numeric
\* literals and a < b parses to Continuous with min = a and max = b
BetweenParsed ==
    called =>
        LET t == stripSpaces(rangeInput)
        IN \A i \in 1..Len(t) : \A sep \in BetweenSeparators :
              LET a == SubSeq(t, 1, i - 1)
                  b == SubSeq(t, i + Len(sep), Len(t))
              IN (/\ StartsWithAt(t, sep, i)
                  /\ IsNumericToken(a) /\ IsNumericToken(b)
                  /\ Less(parseFloat(a), parseFloat(b)))
                 => parsed = Continuous(parseFloat(a), parseFloat(b))

\* C3 witness: a text with whitespace and <= whose bounds 0 and 5 were parsed
BetweenReached ==
    /\ called
    /\ \E i \in 1..Len(rangeInput) : rangeInput[i] = " "
    /\ includes(rangeInput, <<"<", "=">>)
    /\ parsed = Continuous(Num(0), Num(5))

CommaTokens == split(stripSpaces(rangeInput), <<",">>)
TokenValues == [i \in 1..Len(CommaTokens) |-> parseFloat(CommaTokens[i])]

\* C4 (as claimed): a comma-separated list of valid numeric tokens parses to
\* Discrete with exactly the tokens' values, in order
NumericListParsed ==
    (called /\ \A i \in 1..Len(CommaTokens) : IsNumericToken(CommaTokens[i]))
        => parsed = Discrete(TokenValues)

\* C4 (amended): a comma-separated list of numeric tokens written in plain
\* decimal notation (no exponent) parses to Discrete with exactly the
\* tokens' values: same length, same order, duplicates kept
DecimalListParsed ==
    (called /\ \A i \in 1..Len(CommaTokens) : IsPlainDecimal(CommaTokens[i]))
        => parsed = Discrete(TokenValues)

\* C4 witness: a list of two equal tokens was parsed to two equal values
DecimalListReached ==
    /\ called
    /\ Len(CommaTokens) = 2
    /\ \A i \in 1..Len(CommaTokens) : IsPlainDecimal(CommaTokens[i])
    /\ parsed.type = "discrete" /\ Len(parsed.values) = 2
    /\ parsed.values[1] = parsed.values[2]

\* C5: a normalized text that contains '<', '>' or 'inf' parses to
\* Continuous, never Discrete
MarksGiveContinuous ==
    (/\ called
     /\ \/ \E i \in 1..Len(normalized) : normalized[i] \in {"<", ">"}
        \/ includes(normalized, infToken))
        => parsed.type = "continuous"

\* C5 witness: a text with a digit, a comma and a mark was parsed
MarkedListReached ==
    /\ called
    /\ \E i \in 1..Len(normalized) : IsDigit(normalized[i])
    /\ includes(normalized, <<",">>)
    /\ includes(normalized, infToken) \/ includes(normalized, <<"<">>)
    /\ parsed.type = "continuous"

LeftToken == split(normalized, <<"<", "x", "<">>)[1]
RightToken == split(normalized, <<"<", "x", "<">>)[2]
IsBetween == includes(normalized, <<"<", "x", "<">>)

\* C6 (as claimed): in the '<x<' form a bound token that contains 'inf' is
\* -inf (left) or +inf (right) whatever else it contains, otherwise its
\* parsed number, otherwise -inf (left) or +inf (right)
InfTokenWins ==
    (called /\ IsBetween) =>
        /\ parsed.min = IF includes(LeftToken, infToken) THEN NInf
                        ELSE IF isNaN(parseFloat(LeftToken)) THEN NInf
                        ELSE parseFloat(LeftToken)
        /\ parsed.max = IF includes(RightToken, infToken) THEN PInf
                        ELSE IF isNaN(parseFloat(RightToken)) THEN PInf
                        ELSE parseFloat(RightToken)

\* C6 (amended): the left token is -inf if it contains both 'inf' and '-',
\* otherwise its parsed number, otherwise (unparsable) -inf; the right token
\* is +inf if it contains 'inf', otherwise its parsed number, otherwise +inf
BoundTokens ==
    (called /\ IsBetween) =>
        /\ parsed.min = IF includes(LeftToken, infToken) /\ includes(LeftToken, <<"-">>)
                        THEN NInf
                        ELSE IF isNaN(parseFloat(LeftToken)) THEN NInf
                        ELSE parseFloat(LeftToken)
        /\ parsed.max = IF includes(RightToken, infToken) THEN PInf
                        ELSE IF isNaN(parseFloat(RightToken)) THEN PInf
                        ELSE parseFloat(RightToken)

\* C6 witness: a left token with 'inf', no '-' and a leading number was
\* parsed to that number
LeftInfNumberReached ==
    /\ called /\ IsBetween
    /\ includes(LeftToken, infToken) /\ ~includes(LeftToken, <<"-">>)
    /\ isFinite(parsed.min)

AfterFirst(s, pat) == SubSeq(s, IndexOf(s, pat) + Len(pat), Len(s))

\* C7: without '<x<' the rules are tried in the order 'x>', 'x<', '0 ... inf':
\* 'x>' gives (bound or -inf, +inf); only without 'x>' does 'x<' give
\* (-inf, bound or +inf); only without both do 'inf' and '0' give (0, +inf);
\* otherwise the result is (-inf, +inf)
SingleBoundOrder ==
    (called /\ isContinuousText(normalized) /\ ~IsBetween) =>
        LET gt == parseFloat(AfterFirst(normalized, <<"x", ">">>))
            lt == parseFloat(AfterFirst(normalized, <<"x", "<">>))
        IN IF includes(normalized, <<"x", ">">>)
           THEN parsed = Continuous(IF isNaN(gt) THEN NInf ELSE gt, PInf)
           ELSE IF includes(normalized, <<"x", "<">>)
           THEN parsed = Continuous(NInf, IF isNaN(lt) THEN PInf ELSE lt)
           ELSE IF includes(normalized, infToken) /\ includes(normalized, <<"0">>)
           THEN parsed = Continuous(Num(0), PInf)
           ELSE parsed = Continuous(NInf, PInf)

\* C7 witness: a text with both 'x>' and 'x<' followed by a number was parsed
\* by the 'x>' rule alone
BothSingleBoundsReached ==
    /\ called /\ ~IsBetween
    /\ includes(normalized, <<"x", ">">>)
    /\ includes(normalized, <<"x", "<">>)
    /\ isFinite(parseFloat(AfterFirst(normalized, <<"x", "<">>)))
    /\ parsed.max = PInf


----------------------------------------------------------------------------
(* Properties of the analysis pipeline, checked under Spec *)

analysed == analysis.done /\ ~analysis.error
totalMass == analysis.validation.total

\* |v - 1| < 0.05 for a finite v = n/d, by cross-multiplication
NearOne(v) == isFinite(v) /\ 20 * Abs(v.n - v.d) < v.d

\* C8: isValid is true iff |totalMass - 1| < 0.05 (so false for a
\* not-a-number totalMass), totalMass is the sum over the values of a
\* Discrete range and the integral over [min, max] of a Continuous one, and
\* the analysed expression and range are the field's text and its parse
ValidIffNearOne ==
    analysed =>
        /\ analysis.validation.isValid = NearOne(totalMass)
        /\ analysis.range.type = "discrete" =>
              totalMass = summate(analysis.func, analysis.range.values)
        /\ analysis.range.type = "continuous" =>
              totalMass = integrate(analysis.func, analysis.range.min,
                                    analysis.range.max, DefaultSteps)
        /\ analysis.range = parseRange(analysis.rangeStr)

\* C8 witness: an analysis whose total mass is 0.95, just outside the
\* tolerance, and judged invalid
ToleranceEdgeReached ==
    analysed /\ totalMass = Rat(19, 20) /\ ~analysis.validation.isValid

rawMean == rawMoment(xFunc(cleanForEval(analysis.func)), analysis.range)
rawSecMom == rawMoment(x2Func(cleanForEval(analysis.func)), analysis.range)

\* C9 (as claimed): whenever isValid is false the mean and the second moment
\* are the raw moments divided by totalMass, for every value of totalMass
DividedWheneverInvalid ==
    (analysed /\ ~analysis.validation.isValid) =>
        /\ analysis.mean = Div(rawMean, totalMass)
        /\ analysis.secMom = Div(rawSecMom, totalMass)

\* C9 (amended): the raw moments are divided by totalMass when isValid is
\* false and totalMass > 0; when totalMass is zero, negative or not a number
\* (or isValid is true) the raw moments are left unchanged
DividedWhenPositive ==
    analysed =>
        IF ~analysis.validation.isValid /\ Sign(totalMass) > 0
        THEN /\ analysis.mean = Div(rawMean, totalMass)
             /\ analysis.secMom = Div(rawSecMom, totalMass)
        ELSE /\ analysis.mean = rawMean
             /\ analysis.secMom = rawSecMom

\* C9 witness: an analysis with total mass 0 whose mean is the finite,
\* non-zero raw moment
ZeroMassReached ==
    /\ analysed
    /\ totalMass = Num(0)
    /\ isFinite(analysis.mean) /\ analysis.mean # Num(0)
    /\ analysis.mean = rawMean

\* C10: func "x" over "0<x<2" parses to Continuous[0, 2], has totalMass 2,
\* is judged invalid, and after division by totalMass has mean 4/3, second
\* moment 2 and variance 2/9
TriangularEndToEnd ==
    (/\ analysed
     /\ analysis.func = <<"x">>
     /\ analysis.rangeStr = <<"0", "<", "x", "<", "2">>)
        => /\ analysis.range = Continuous(Num(0), Num(2))
           /\ totalMass = Num(2)
           /\ ~analysis.validation.isValid
           /\ analysis.mean = Rat(4, 3)
           /\ analysis.secMom = Num(2)
           /\ analysis.variance = Rat(2, 9)

\* C10 witness: that analysis has run
TriangularReached ==
    /\ analysed
    /\ analysis.func = <<"x">>
    /\ analysis.rangeStr = <<"0", "<", "x", "<", "2">>
    /\ analysis.variance = Rat(2, 9)

\* the analysed expression evaluates (math.js does not throw on it)
evaluates == evaluate(cleanForEval(analysis.func), Num(1)).ok

\* C11 (as claimed): a non-finite value of the expression at a sample point,
\* the endpoints of integrate and the values of a discrete range included,
\* contributes zero, so the total of an expression that evaluates is finite
SamplesCoerced ==
    (analysed /\ evaluates) => isFinite(totalMass)

\* C12: when the expression does not compile or its evaluation throws, the
\* sum or the integral is the not-a-number sentinel for the total and for
\* both moments, and the handler still runs to its end: the output is
\* rendered, every section included, and the query button installed
FailureGivesNaN ==
    (analysis.done /\ ~evaluates) =>
        /\ ~analysis.error
        /\ totalMass = NaN /\ ~analysis.validation.isValid
        /\ rawMean = NaN /\ rawSecMom = NaN
        /\ analysis.mean = NaN /\ analysis.secMom = NaN /\ analysis.variance = NaN
        /\ analysis.mgf # "none" /\ analysis.pgf # "none" /\ analysis.cdf # "none"
        /\ analysis.cdfButton

\* C12 witness: an unbalanced parenthesis was analysed over a discrete range,
\* its sum is the sentinel and the button is installed
ThrownSumReached ==
    /\ analysis.done /\ analysis.func = <<"(">>
    /\ analysis.range.type = "discrete"
    /\ totalMass = NaN /\ analysis.cdfButton


----------------------------------------------------------------------------
(* Properties of integrate, checked under SpecQuad *)

\* a <= x <= b or b <= x <= a for the numbers a, b, x
Between(x, a, b) ==
    \/ ~isNaN(x) /\ ~Less(x, a) /\ ~Less(b, x)
    \/ ~isNaN(x) /\ ~Less(x, b) /\ ~Less(a, x)

\* C13 (as claimed): a lower bound of -inf is replaced by -100 and an upper
\* bound of +inf by +100, finite bounds are used unchanged, and every sample
\* point is finite and lies between the two effective bounds, for every
\* descriptor parseRange returns
SamplesFinite ==
    quad.done =>
        /\ quad.lower = parsed.min /\ quad.upper = parsed.max
        /\ quad.effLow = (IF quad.lower = NInf THEN Num(-100) ELSE quad.lower)
        /\ quad.effHigh = (IF quad.upper = PInf THEN Num(100) ELSE quad.upper)
        /\ \A i \in 1..Len(quad.points) :
              /\ isFinite(quad.points[i])
              /\ Between(quad.points[i], quad.effLow, quad.effHigh)


----------------------------------------------------------------------------
(* Properties of identifyDistribution, checked under SpecIdentify *)

identifiedFunc == normalizeFunc(funcInput)

RuleOrder ==
    <<"poisson", "binomial", "geometric", "beta", "exponential", "gamma", "normal",
      "uniform">>

\* the range precondition and the structural signal of a rule both hold
Fires(rule) ==
    CASE rule = "poisson" ->
            parsed.type = "discrete" /\ poissonRule(identifiedFunc, parsed.values)
      [] rule = "binomial" ->
            parsed.type = "discrete" /\ binomialRule(identifiedFunc, parsed.values)
      [] rule = "geometric" ->
            parsed.type = "discrete" /\ geometricRule(identifiedFunc, parsed.values)
      [] rule = "beta" -> parsed.type = "continuous" /\ betaRule(identifiedFunc, parsed)
      [] rule = "exponential" ->
            parsed.type = "continuous" /\ exponentialRule(identifiedFunc, parsed)
      [] rule = "gamma" -> parsed.type = "continuous" /\ gammaRule(identifiedFunc, parsed)
      [] rule = "normal" -> parsed.type = "continuous" /\ normalRule(identifiedFunc, parsed)
      [] rule = "uniform" -> parsed.type = "continuous" /\ uniformRule(funcInput, parsed)

\* C14: identify returns at most one family, the first in the order Poisson,
\* Binomial, Geometric, Beta, Exponential, Gamma, Normal, Uniform whose rule
\* fires, and none when no rule fires; a Discrete range yields only one of
\* the first three families, a Continuous range only one of the last five
FirstMatchWins ==
    called =>
        /\ (distInfo.type = "none") = (\A i \in 1..Len(RuleOrder) : ~Fires(RuleOrder[i]))
        /\ distInfo.type # "none" =>
              \E i \in 1..Len(RuleOrder) :
                  /\ distInfo.type = RuleOrder[i]
                  /\ Fires(RuleOrder[i])
                  /\ \A j \in 1..(i - 1) : ~Fires(RuleOrder[j])
        /\ parsed.type = "discrete" =>
              distInfo.type \in {"poisson", "binomial", "geometric", "none"}
        /\ parsed.type = "continuous" =>
              distInfo.type \in {"beta", "exponential", "gamma", "normal", "uniform", "none"}

\* C14 witness: the Exponential and the Gamma rule both fire and the match
\* is the Exponential one
EarlierRuleReached ==
    /\ called
    /\ Fires("exponential") /\ Fires("gamma")
    /\ distInfo.type = "exponential"

\* C15 (as claimed): the normalized expression "2*exp(-2*x)" over
\* Continuous[0, +inf) is matched as Exponential with rate 2
ExpCallRecognized ==
    (/\ called
     /\ funcInput = <<"2", "*", "e", "x", "p", "(", "-", "2", "*", "x", ")">>
     /\ parsed = Continuous(Num(0), PInf))
        => distInfo = Match("exponential", Num(2))

\* an exponential marker, 'e^' or 'exp', starts at index i
markerAt(f, i) == StartsWithAt(f, <<"e", "^">>, i) \/ StartsWithAt(f, <<"e", "x", "p">>, i)
hasMarker(f) == \E i \in 1..Len(f) : markerAt(f, i)

\* the text before the first exponential marker of f
beforeMarker(f) ==
    SubSeq(f, 1, (CHOOSE i \in 1..Len(f) :
                      markerAt(f, i) /\ \A j \in 1..(i - 1) : ~markerAt(f, j)) - 1)

\* the rate read from a coefficient text
rateOf(text) ==
    IF Len(text) = 0 THEN Num(1)
    ELSE IF isNaN(parseFloat(text)) THEN LambdaSymbol
    ELSE parseFloat(text)

excludesGamma(f) == ~has(f, <<"x", "*", "e">>) /\ ~has(f, <<"x", "^">>)

\* over Continuous[0, +inf) an expression with an exponential marker and
\* 'x^' or 'x*e' is matched as Gamma
GammaOverExponential ==
    (parsed = Continuous(Num(0), PInf) /\ hasMarker(identifiedFunc)
        /\ ~excludesGamma(identifiedFunc))
        => distInfo.type = "gamma"

\* C16 (as claimed): such an expression is matched as Gamma, never as
\* Exponential; an Exponential match has an exponential marker and neither
\* 'x*e' nor 'x^', and its rate is the number parsed from the text before
\* the first exponential marker (1 if it is empty, lambda if not a number)
RateBeforeMarker ==
    called =>
        /\ GammaOverExponential
        /\ distInfo.type = "exponential" =>
              /\ hasMarker(identifiedFunc) /\ excludesGamma(identifiedFunc)
              /\ distInfo.param = rateOf(beforeMarker(identifiedFunc))

\* C16 (amended): as claimed, except that the rate is the number parsed from
\* the text before the first 'e^' once its '*' characters are removed (1 if
\* nothing remains, lambda if what remains does not start with a number)
RateBeforePower ==
    called =>
        /\ GammaOverExponential
        /\ distInfo.type = "exponential" =>
              /\ hasMarker(identifiedFunc) /\ excludesGamma(identifiedFunc)
              /\ distInfo.param =
                    rateOf(replaceAll(SubSeq(identifiedFunc, 1,
                                             IndexOf(identifiedFunc, <<"e", "^">>) - 1),
                                      <<"*">>, <<>>))

\* C16 witness: an Exponential match whose coefficient text holds a '*'
\* between two digits
StarredRateReached ==
    /\ called
    /\ distInfo.type = "exponential"
    /\ has(SubSeq(identifiedFunc, 1, IndexOf(identifiedFunc, <<"e", "^">>) - 1), <<"*">>)
    /\ isFinite(distInfo.param) /\ distInfo.param.n > 9

\* C17: the match is Poisson exactly when the range is Discrete with at
\* least 11 values, the first of them 0, and the expression has a factorial
\* marker ('!' or 'factorial') and an exponential marker ('e^' or 'exp'),
\* whether or not the Binomial signals hold too
PoissonExactly ==
    called =>
        (distInfo.type = "poisson") =
            (/\ parsed.type = "discrete"
             /\ Len(parsed.values) >= 11
             /\ parsed.values[1] = Num(0)
             /\ has(identifiedFunc, <<"!">>) \/ has(identifiedFunc, <<"f", "a", "c", "t", "o", "r", "i", "a", "l">>)
             /\ hasMarker(identifiedFunc))

\* C17 witness: a Poisson match for an expression and a range on which the
\* Binomial rule fires too
PoissonOverBinomialReached ==
    /\ called
    /\ distInfo.type = "poisson"
    /\ Fires("binomial")


----------------------------------------------------------------------------
(* Properties of the analyzer on unbounded ranges, checked under            *)
(* SpecUnbounded                                                             *)

\* an exponential with a negated exponent: 'e^-', 'e^(-' or 'exp(-'
hasDecayMarker(f) ==
    \/ has(normalizeFunc(f), <<"e", "^", "-">>)
    \/ has(normalizeFunc(f), <<"e", "^", "(", "-">>)
    \/ has(normalizeFunc(f), <<"e", "x", "p", "(", "-">>)

\* C18 (as claimed): an expression with an exponential-decay marker over a
\* Continuous range with min = -inf is answered by a guidance message, and
\* no validation, mean or second moment is computed for it
MismatchGuided ==
    (/\ analysis.done
     /\ hasDecayMarker(analysis.func)
     /\ analysis.range.type = "continuous" /\ analysis.range.min = NInf)
        => /\ analysis.error
           /\ analysis.validation.total = Undefined
           /\ analysis.mean = Undefined /\ analysis.secMom = Undefined

----------------------------------------------------------------------------
(* Properties of the rendered sections, checked under Spec *)

libraryFails == nerdamer \in {"absent", "throws"}
overInterval == analysis.range.type = "continuous"

\* C19 (as claimed): when the symbolic library is absent or throws, both
\* calls give null, the analysis completes, every section is rendered by
\* its numeric-only or generic-notation branch, and the query button is
\* installed
FallbackEverywhere ==
    (analysed /\ libraryFails) =>
        /\ trySymbolicIntegration(nerdamer) = "null"
        /\ getSymbolicCDF(analysis.range, nerdamer) = "null"
        /\ analysis.mean # Undefined /\ analysis.variance # Undefined
        /\ analysis.mgf = (IF overInterval THEN "numerical" ELSE "sum")
        /\ analysis.pgf = (IF overInterval THEN "integral" ELSE "sum")
        /\ analysis.cdf = (IF overInterval THEN "integral" ELSE "step")
        /\ analysis.cdfButton

\* C19 (amended): as claimed, except that for a recognized family the MGF
\* section, and the PGF section if the family has a PGF, show the family's
\* closed form
FallbackUnlessRecognized ==
    (analysed /\ libraryFails) =>
        /\ trySymbolicIntegration(nerdamer) = "null"
        /\ getSymbolicCDF(analysis.range, nerdamer) = "null"
        /\ analysis.mean # Undefined /\ analysis.variance # Undefined
        /\ analysis.mgf = (IF analysis.distInfo.type # "none" THEN "recognized"
                           ELSE IF overInterval THEN "numerical" ELSE "sum")
        /\ analysis.pgf = (IF analysis.distInfo.type \in {"poisson", "binomial", "geometric"}
                           THEN "recognized"
                           ELSE IF overInterval THEN "integral" ELSE "sum")
        /\ analysis.cdf = (IF overInterval THEN "integral" ELSE "step")
        /\ analysis.cdfButton

\* C19 witness: with a library that throws, an unrecognized expression over
\* an interval was rendered by the fallback branches, button included
ThrowingLibraryReached ==
    /\ analysed /\ nerdamer = "throws"
    /\ overInterval /\ analysis.distInfo = NoMatch
    /\ analysis.mgf = "numerical" /\ analysis.pgf = "integral" /\ analysis.cdf = "integral"
    /\ analysis.cdfButton


----------------------------------------------------------------------------
(* Properties of the Binomial calculator, checked under SpecBin *)

RECURSIVE Pascal(_, _)
\* the binomial coefficient by Pascal's rule
Pascal(n, k) ==
    IF k < 0 \/ k > n THEN 0
    ELSE IF k = 0 \/ k = n THEN 1
    ELSE Pascal(n - 1, k - 1) + Pascal(n - 1, k)

\* C(n, i) p^i (1 - p)^(n - i) for 0 <= i <= n, 0 outside
BinomialMass(n, p, i) ==
    IF i < 0 \/ i > n THEN Num(0)
    ELSE Mul(Num(Pascal(n, i)), Mul(PowInt(p, i), PowInt(Sub(Num(1), p), n - i)))

RECURSIVE UpperMass(_, _, _)
\* the mass from j upwards: the sum of BinomialMass over j .. n
UpperMass(n, p, j) ==
    IF j > n THEN Num(0)
    ELSE Add(BinomialMass(n, p, j), UpperMass(n, p, j + 1))

\* the results shown are those of a click with integers in the fields n and k
integerResults == bin.shown /\ isFinite(bin.out.n) /\ isFinite(bin.out.k)

\* C20: for integer n >= 0, p in [0, 1] and integer k, the Binomial calculator
\* shows PMF = C(n, k) p^k (1 - p)^(n - k) for 0 <= k <= n and 0 for k outside
\* that range, CDF = the sum of the PMF over 0 .. k (0 for k < 0, 1 for
\* k >= n, and always 1 minus the mass above k), survival = 1 - CDF; with
\* n = 10, p = 0.5, k = 5 the PMF is 252/1024 and the CDF 638/1024.
BinomialResults ==
    integerResults =>
        /\ bin.out.pdf = BinomialMass(bin.out.n.n, bin.out.p, bin.out.k.n)
        /\ bin.out.cdf = Sub(Num(1), UpperMass(bin.out.n.n, bin.out.p,
                                               IF bin.out.k.n < 0 THEN 0 ELSE bin.out.k.n + 1))
        /\ (bin.out.k.n < 0 => bin.out.cdf = Num(0))
        /\ (bin.out.k.n >= bin.out.n.n => bin.out.cdf = Num(1))
        /\ bin.out.surv = Sub(Num(1), bin.out.cdf)
        /\ (bin.out.n = Num(10) /\ bin.out.p = Rat(1, 2) /\ bin.out.k = Num(5) =>
                /\ bin.out.pdf = Rat(252, 1024)
                /\ bin.out.cdf = Rat(638, 1024))

\* C20 witness: the calculator has shown the results for n = 10, p = 0.5,
\* k = 5, and the PMF it shows is 63/256 = 252/1024
DefaultBinomialShown ==
    /\ bin.shown
    /\ bin.out.n = Num(10) /\ bin.out.p = Rat(1, 2) /\ bin.out.k = Num(5)
    /\ bin.out.pdf = Rat(63, 256)

\* C24: the Calculate handler of the Binomial calculator returns without
\* raising for every n and k its fields can yield, every integer and
\* not-a-number: the recursion of factorial reaches its base case for every
\* argument nCr passes to it.
HandlerReturns == ~bin.raised

----------------------------------------------------------------------------
(* Properties of cleanForEval, checked under SpecClean *)

\* C21: cleanForEval is idempotent: for every text s over the accepted
\* alphabet, cleanForEval(cleanForEval(s)) = cleanForEval(s).
CleanIdempotent == cleaned.done => cleaned.twice = cleaned.once

\* C21 witness: cleanForEval has rewritten both an "e^" and an implicit
\* product ("2e^x" became "2*exp(x)"), and was applied again to the result
BothRewritesReached ==
    /\ cleaned.done
    /\ funcInput = <<"2", "e", "^", "x">>
    /\ cleaned.once = <<"2", "*", "e", "x", "p", "(", "x", ")">>

----------------------------------------------------------------------------
(* The uniform density, checked under Spec *)

\* the analysed expression is a decimal literal
literalFunc == \A i \in 1..Len(analysis.func) : IsDigit(analysis.func[i]) \/ analysis.func[i] = "."

\* the analysed range is Continuous[a, b] with a < b finite and the analysed
\* expression is the literal of 1/(b - a)
uniformDensity ==
    /\ analysed
    /\ analysis.range.type = "continuous"
    /\ isFinite(analysis.range.min) /\ isFinite(analysis.range.max)
    /\ Less(analysis.range.min, analysis.range.max)
    /\ literalFunc
    /\ parseFloat(analysis.func) = Div(Num(1), Sub(analysis.range.max, analysis.range.min))

\* C22: on the constant density 1/(b - a) over Continuous[a, b], a < b
\* finite, the total mass is 1 and isValid is true; on "1" over
\* Continuous[0, 1] the mean is 1/2 and the variance 1/12, and both moments
\* are the raw integrals (no renormalization); the quadrature gives these
\* values exactly, for the even step count DefaultSteps.
UniformExact ==
    uniformDensity =>
        /\ totalMass = Num(1)
        /\ analysis.validation.isValid
        /\ analysis.mean = rawMoment(xFunc(cleanForEval(analysis.func)), analysis.range)
        /\ analysis.secMom = rawMoment(x2Func(cleanForEval(analysis.func)), analysis.range)
        /\ (analysis.range.min = Num(0) /\ analysis.range.max = Num(1) =>
                /\ analysis.mean = Rat(1, 2)
                /\ analysis.variance = Rat(1, 12))

\* C22 witness: the density "1" over Continuous[0, 1] has been analysed and
\* its mean is 1/2
UnitUniformReached ==
    /\ uniformDensity
    /\ analysis.func = <<"1">>
    /\ analysis.range.min = Num(0) /\ analysis.range.max = Num(1)
    /\ analysis.mean = Rat(1, 2)

----------------------------------------------------------------------------
(* Properties of the Normal calculator, checked under SpecNormalFair *)

\* C23: the Calculate handler of the Normal calculator terminates for every
\* mu, sigma and target its fields can yield, a sigma of 0, a negative sigma
\* and a not-a-number sigma included: the chart-sampling loop always reaches
\* its end.
SamplingEnds == (normal.pc = "sampling") ~> (normal.pc = "idle")

----------------------------------------------------------------------------
(* Properties of window.myChart, checked under SpecCharts *)

\* C25: after any sequence of Calculate clicks in the Binomial and Normal
\* calculators and of module switches, at most one chart exists that has not
\* been destroyed, and the handle refers to the chart created last (which is
\* that chart, when there is one).
OneLiveChart ==
    /\ myChart.live <= 1
    /\ myChart.heldLatest
    /\ (myChart.live = 1 <=> myChart.held = "live")

\* C25 witness: after a module switch the handler of the Normal calculator
\* is running and has destroyed the bar chart the Binomial calculator stored
BarDestroyedByNormal ==
    /\ normal.pc = "sampling"
    /\ myChart.held = "destroyed" /\ myChart.live = 0
    /\ myChart.shape[1].type = "bar"

----------------------------------------------------------------------------
(* Properties of the CDF query, checked under SpecQuery *)

answered == Len(query.answers) > 0

\* the k of the answer shown
shownK == query.answers[1].k

\* C26: a query uses the function, the range and the total mass of the
\* analysis that installed its button, not the contents of the fields: the
\* answer shown is the one for the last analysis whatever the fields hold
\* now, a click would give that answer for every k, and exactly one listener,
\* that of the last analysis, answers a click.
QueryUsesClosure ==
    /\ answered =>
          /\ Len(query.answers) = 1
          /\ query.answers[1] = listenerAnswer(closureOf(analysis), shownK)
    /\ analysis.cdfButton =>
          /\ Len(query.listeners) = 1
          /\ \A k \in QueryTargets \ {NaN} :
                clicked(query, k).answers = <<listenerAnswer(closureOf(analysis), k)>>

\* C26 witness: after a second analysis, with both fields edited since, a
\* query has been answered
StaleFieldsQueried ==
    /\ answered
    /\ analysis.func = <<"x">> /\ funcInput = <<"1">>
    /\ analysis.rangeStr = <<"0", "<", "x", "<", "2">> /\ rangeInput = <<"0", ",", "1">>
    /\ shownK = Num(1) /\ query.answers[1].prob = Rat(1, 4)

\* the closure of the listener that answered
asked == query.listeners[1]

\* C27: for a Continuous range with finite positive total mass the query
\* clamps k into [min, max] and the normalized result into [0, 1]: every
\* k <= min reports 0, every k >= max reports 1, the survival reported is
\* 1 minus the probability reported, and the result is the integral divided
\* by the total mass (the total is positive), valid or not.
QueryClamped ==
    answered /\ asked.range.type = "continuous"
             /\ isFinite(asked.validation.total) /\ Less(Num(0), asked.validation.total) =>
        /\ (LessEq(shownK, asked.range.min) => query.answers[1].prob = Num(0))
        /\ (LessEq(asked.range.max, shownK) => query.answers[1].prob = Num(1))
        /\ query.answers[1].surv = Sub(Num(1), query.answers[1].prob)
        /\ query.answers[1].prob =
              clampUnit(Div(queryProb(asked, shownK), asked.validation.total))
        /\ LessEq(Num(0), query.answers[1].prob) /\ LessEq(query.answers[1].prob, Num(1))

============================================================================
